---- MODULE Spec2Model ----
(***************************************************************************)
(* DocImprover: the document / image round trip of DocumentProcessor       *)
(* (src/src/doc_improver/document_processor.py) as app.py invokes it on    *)
(* the module-level doc_processor.                                         *)
(*                                                                         *)
(* A text is a sequence of lines (the text joined or split on "\n"); a     *)
(* line is a sequence of tokens: a piece of run text, or a placeholder     *)
(* "[IMAGE:<id>]".  uuid4 values are modelled by the naturals 1, 2, ...;   *)
(* the id text "This image is too large to process" by TOO_LARGE.          *)
(***************************************************************************)
EXTENDS Integers, Sequences, FiniteSets, TLC

\* ---- bounds of the model ------------------------------------------------
MaxRuns == 3
MaxHeavy == 6

\* ---- program constants --------------------------------------------------
MAX_IMAGE_SIZE == 10 * 1024 * 1024
MAX_TOTAL_SIZE == 50 * 1024 * 1024
TOO_LARGE == 0

Threads == {1, 2}

VARIABLES _image_map, uuid_next, call,
          _temp_dir, disk, mkdtemp_next, ctx,
          request, response, tmp_files,
          probe

\* the temporary directory of a DocumentProcessor, the directories on disk,
\* the next name tempfile.mkdtemp hands out, the state of a "with" block
tempVars == <<_temp_dir, disk, mkdtemp_next, ctx>>
\* the upload requests, their responses, the files of tempfile.gettempdir()
httpVars == <<request, response, tmp_files>>

vars == <<_image_map, uuid_next, call, tempVars, httpVars, probe>>

\* Python's None, and a Python list held where None may stand instead
None == [none |-> TRUE]
List(xs) == [list |-> xs]
EmptyMap == [k \in {} |-> None]

\* ---- tokens and lines ----------------------------------------------------
Txt(s) == [k |-> "txt", s |-> s]
Placeholder(id) == [k |-> "img", id |-> id]

IsBlankToken(tok) == tok.k = "txt" /\ tok.s \in {"", " "}

\* str.strip() of a line is empty
IsBlank(line) == \A i \in 1..Len(line) : IsBlankToken(line[i])

RECURSIVE LStrip(_)
LStrip(line) ==
    IF line # <<>> /\ IsBlankToken(Head(line)) THEN LStrip(Tail(line)) ELSE line

\* modified_text += s
AddText(text, s) == IF s = "" THEN text ELSE Append(text, Txt(s))

\* ---- input documents -----------------------------------------------------
\* An embedded image: the size of its blob, whether PIL can open the blob,
\* and whether doc.part.related_parts holds its relationship id.
Image(size, decodable, resolves) ==
    [size |-> size, decodable |-> decodable, resolves |-> resolves]

ImgSmall == Image(1024, TRUE, TRUE)
ImgCorrupt == Image(1024, FALSE, TRUE)
ImgLimit == Image(MAX_IMAGE_SIZE, TRUE, TRUE)
ImgHuge == Image(MAX_IMAGE_SIZE + 1, TRUE, TRUE)
ImgDangling == Image(1, FALSE, FALSE)

\* A run as the decomposer sees it: run.text and what _extract_image_from_run
\* reports for it (None: has_image is false or there is no rid; otherwise
\* the image its rid names).
Run(text, image) == [text |-> text, image |-> image]

RunSet ==
    { Run("a", None), Run(" ", None),
      Run("", ImgSmall), Run("", ImgCorrupt), Run("", ImgHuge),
      Run("b", ImgDangling) }

RunSeqs == UNION { [1..n -> RunSet] : n \in 0..MaxRuns }

\* the runs rs cut into paragraphs after every position of B
RECURSIVE Paragraphs(_, _, _, _)
Paragraphs(rs, B, i, cur) ==
    IF i > Len(rs)
    THEN IF cur = <<>> THEN <<>> ELSE <<cur>>
    ELSE LET c == Append(cur, rs[i])
         IN IF i \in B
            THEN <<c>> \o Paragraphs(rs, B, i + 1, <<>>)
            ELSE Paragraphs(rs, B, i + 1, c)

SmallDocs ==
    UNION { { Paragraphs(rs, B, 1, <<>>) : B \in SUBSET (1..(Len(rs) - 1)) }
            : rs \in RunSeqs }

\* documents of n pictures of the same size, one per paragraph
HeavyDocs ==
    { [i \in 1..n |-> <<Run("", img)>>] :
        n \in 1..MaxHeavy, img \in {ImgLimit, ImgSmall} }

Docs == SmallDocs \cup HeavyDocs

\* ---- decomposition -------------------------------------------------------
\* "if has_image and rid"
RunHasImage(run) == run.image # None

\* ExtractRun with an id that is not fresh: the counter is not advanced
ExtractRun_SameId(run, st) ==
    IF run.image # None
    THEN LET img == run.image
         IN IF ~img.resolves
            THEN [st EXCEPT !.text = AddText(@, run.text)]
            ELSE IF img.size > MAX_IMAGE_SIZE
            THEN [st EXCEPT !.text = Append(@, Placeholder(TOO_LARGE))]
            ELSE [text |-> Append(st.text, Placeholder(st.next)),
                  map  |-> (st.next :> img) @@ st.map,
                  next |-> st.next]
    ELSE [st EXCEPT !.text = AddText(@, run.text)]

\* ExtractRun without the check of the image size
ExtractRun_NoLimit(run, st) ==
    IF run.image # None
    THEN LET img == run.image
         IN IF ~img.resolves
            THEN [st EXCEPT !.text = AddText(@, run.text)]
            ELSE [text |-> Append(st.text, Placeholder(st.next)),
                  map  |-> (st.next :> img) @@ st.map,
                  next |-> st.next + 1]
    ELSE [st EXCEPT !.text = AddText(@, run.text)]

\* ExtractRun that issues an id and writes a placeholder before the payload
\* is resolved, and registers nothing when that fails
ExtractRun_PlaceholderFirst(run, st) ==
    IF run.image # None
    THEN LET img == run.image
         IN IF ~img.resolves
            THEN [text |-> Append(st.text, Placeholder(st.next)),
                  map  |-> st.map,
                  next |-> st.next + 1]
            ELSE IF img.size > MAX_IMAGE_SIZE
            THEN [st EXCEPT !.text = Append(@, Placeholder(TOO_LARGE))]
            ELSE [text |-> Append(st.text, Placeholder(st.next)),
                  map  |-> (st.next :> img) @@ st.map,
                  next |-> st.next + 1]
    ELSE [st EXCEPT !.text = AddText(@, run.text)]

\* one iteration of "for run in paragraph.runs"; st = [text, map, next]
ExtractRun(run, st) ==
    IF RunHasImage(run)
    THEN LET img == run.image
         IN IF ~img.resolves
            THEN [st EXCEPT !.text = AddText(@, run.text)]
            ELSE IF img.size > MAX_IMAGE_SIZE
            THEN [st EXCEPT !.text = Append(@, Placeholder(TOO_LARGE))]
            ELSE [text |-> Append(st.text, Placeholder(st.next)),
                  map  |-> (st.next :> img) @@ st.map,
                  next |-> st.next + 1]
    ELSE [st EXCEPT !.text = AddText(@, run.text)]

RECURSIVE ExtractRuns(_, _)
ExtractRuns(runs, st) ==
    IF runs = <<>> THEN st
    ELSE ExtractRuns(Tail(runs), ExtractRun(Head(runs), st))

\* "for paragraph in doc.paragraphs"; st = [full_text, map, next]
RECURSIVE ExtractParagraphs(_, _)
ExtractParagraphs(paras, st) ==
    IF paras = <<>> THEN st
    ELSE LET r == ExtractRuns(Head(paras),
                      [text |-> <<>>, map |-> st.map, next |-> st.next])
         IN ExtractParagraphs(Tail(paras),
                [full_text |-> IF IsBlank(r.text) THEN st.full_text
                               ELSE Append(st.full_text, r.text),
                 map  |-> r.map,
                 next |-> r.next])

\* ---- the state ------------------------------------------------------------
IdleCall ==
    [pc |-> "idle", doc |-> <<>>, original_text |-> <<>>,
     improved_text |-> <<>>, new_doc |-> <<>>, current_lines |-> <<>>,
     errors |-> <<>>, line_no |-> 0, result |-> None,
     gateway_calls |-> 0, rewrite |-> "", registered |-> EmptyMap]

\* DocumentProcessor.__init__ (lines 41-47) and the call records
InitPipeline ==
    /\ _image_map = EmptyMap
    /\ uuid_next = 1
    /\ call = [t \in Threads |-> IdleCall]

InitTemp ==
    /\ _temp_dir = None
    /\ disk = {}
    /\ mkdtemp_next = 1
    /\ ctx = [block |-> "out", raised |-> FALSE, propagated |-> FALSE,
              returned |-> None]

InitHttp ==
    /\ request = [t \in Threads |-> None]
    /\ response = [t \in Threads |-> None]
    /\ tmp_files = EmptyMap

Init ==
    /\ InitPipeline
    /\ InitTemp
    /\ InitHttp
    /\ probe = None

\* app.py upload_file: doc_processor.improve_document(doc)
upload_file(t, docs) ==
    /\ call[t].pc = "idle"
    /\ \E d \in docs :
         call' = [call EXCEPT ![t] = [IdleCall EXCEPT !.pc = "extract", !.doc = d]]
    /\ UNCHANGED <<_image_map, uuid_next, tempVars, httpVars, probe>>

\* the registry of the conversion before carried into this one
ResetRegistry_Kept(map) == map

\* self._image_map = {} (line 100)
ResetRegistry(map) == EmptyMap

extract_text_and_images(t) ==
    /\ call[t].pc = "extract"
    /\ LET r == ExtractParagraphs(call[t].doc,
                    [full_text |-> <<>>, map |-> ResetRegistry(_image_map),
                     next |-> uuid_next])
       IN /\ _image_map' = r.map
          /\ uuid_next' = r.next
          /\ call' = [call EXCEPT ![t].original_text = r.full_text,
                                  ![t].registered = r.map,
                                  ![t].pc = "check"]
    /\ UNCHANGED <<tempVars, httpVars, probe>>

\* ---- the checks before the rewrite (improve_document, lines 328-340) ------
\* not original_text.strip()
IsEmptyText(text) == \A i \in 1..Len(text) : IsBlank(text[i])

RECURSIVE SumSizes(_, _)
SumSizes(map, ids) ==
    IF ids = {} THEN 0
    ELSE LET id == CHOOSE x \in ids : TRUE
         IN map[id].size + SumSizes(map, ids \ {id})

\* TotalImageSize taking the largest image instead of the sum
TotalImageSize_Largest(map) ==
    IF DOMAIN map = {} THEN 0
    ELSE LET id == CHOOSE x \in DOMAIN map :
                      \A y \in DOMAIN map : map[y].size <= map[x].size
         IN map[id].size

\* sum(len(img['bytes']) for img in self._image_map.values())
TotalImageSize(map) == SumSizes(map, DOMAIN map)

ErrorResult(msg) == [success |-> FALSE, error |-> msg]

\* ExceptHandler returning the text extracted so far with the error
ExceptHandler_Partial(c, msg) ==
    [c EXCEPT !.result = [success |-> FALSE, error |-> msg,
                          original_text |-> c.original_text],
              !.pc = "done"]

\* ExceptHandler that does not catch: the call ends without a result
ExceptHandler_Reraise(c, msg) == [c EXCEPT !.pc = "done"]

\* "except Exception as e: return {"error": str(e), "success": False}"
ExceptHandler(c, msg) == [c EXCEPT !.result = ErrorResult(msg), !.pc = "done"]

\* CheckExtracted without the early return for an empty text
CheckExtracted_NoEmptyCheck(c, map) ==
    IF TotalImageSize(map) > MAX_TOTAL_SIZE
    THEN [c EXCEPT !.result = ErrorResult("Total image size exceeds maximum allowed size (50MB)"),
                   !.pc = "done"]
    ELSE [c EXCEPT !.pc = "rewrite"]

\* the two early returns of improve_document; c is the call, map the registry
CheckExtracted(c, map) ==
    IF IsEmptyText(c.original_text)
    THEN [c EXCEPT !.result = ErrorResult("Document is empty"), !.pc = "done"]
    ELSE IF TotalImageSize(map) > MAX_TOTAL_SIZE
    THEN [c EXCEPT !.result = ErrorResult("Total image size exceeds maximum allowed size (50MB)"),
                   !.pc = "done"]
    ELSE [c EXCEPT !.pc = "rewrite"]

improve_document_checks(t) ==
    /\ call[t].pc = "check"
    /\ call' = [call EXCEPT ![t] = CheckExtracted(call[t], _image_map)]
    /\ UNCHANGED <<_image_map, uuid_next, tempVars, httpVars, probe>>

\* ---- the Rewrite Gateway (client.chat.completions.create) -----------------
RECURSIVE Spaced(_)
Spaced(text) ==
    IF text = <<>> THEN <<>> ELSE <<Head(text), <<>>>> \o Spaced(Tail(text))

RECURSIVE Joined(_)
Joined(text) ==
    IF text = <<>> THEN <<>> ELSE Head(text) \o Joined(Tail(text))

RewriteKinds == {"identity", "spaced", "doubled", "joined", "invented"}

\* what the model may answer, already split on "\n"
Rewrite(kind, text) ==
    CASE kind = "identity" -> text
      [] kind = "spaced"   -> Spaced(text)
      [] kind = "doubled"  -> text \o text
      [] kind = "joined"   -> <<Joined(text)>>
      [] kind = "invented" -> <<<<Placeholder(-1)>>>> \o text

GatewayOutcomes(text) ==
    {[kind |-> "raise"], [kind |-> "none"]}
        \cup {[kind |-> k, content |-> Rewrite(k, text)] : k \in RewriteKinds}

chat_completions_create(t, outcomes) ==
    /\ call[t].pc = "rewrite"
    /\ \E out \in outcomes :
         call' = [call EXCEPT ![t] =
            LET c == [@ EXCEPT !.gateway_calls = @ + 1, !.rewrite = out.kind]
            IN IF out.kind = "raise"
               THEN ExceptHandler(c, "Connection error.")
               ELSE IF out.kind = "none"
               THEN ExceptHandler(c, "'NoneType' object has no attribute 'split'")
               ELSE [c EXCEPT !.improved_text = out.content,
                              !.new_doc = <<>>, !.current_lines = <<>>,
                              !.errors = <<>>, !.line_no = 1,
                              !.pc = "recompose"]]
    /\ UNCHANGED <<_image_map, uuid_next, tempVars, httpVars, probe>>

\* ---- recomposition ---------------------------------------------------------
TextParagraph(lines) == [kind |-> "text", lines |-> lines]
MarkerParagraph == [kind |-> "marker", lines |-> <<<<Placeholder(TOO_LARGE)>>>>]
PictureParagraph(id, img) == [kind |-> "picture", image_id |-> id, image |-> img]

\* "if current_lines: ... new_doc.add_paragraph() ... current_lines = []"
FlushLines(doc, current_lines) ==
    IF current_lines # <<>> THEN Append(doc, TextParagraph(current_lines)) ELSE doc

\* re.match(r'\[IMAGE:([^]]+)\]', line.strip())
ImageMatch(line) == LStrip(line) # <<>> /\ Head(LStrip(line)).k = "img"
ImageMatchId(line) == Head(LStrip(line)).id

ImageError(id) == [msg |-> "Error adding image", image_id |-> id]

\* _add_image_to_doc that logs a failed embedding but returns no error
AddImageToDoc_Silent(doc, map, image_id) ==
    IF image_id \notin DOMAIN map
    THEN IF image_id = TOO_LARGE
         THEN [doc |-> Append(doc, MarkerParagraph), error |-> None]
         ELSE [doc |-> doc, error |-> None]
    ELSE IF ~map[image_id].decodable
         THEN [doc |-> doc, error |-> None]
         ELSE [doc |-> Append(doc, PictureParagraph(image_id, map[image_id])),
               error |-> None]

\* _add_image_to_doc that reports an id it does not find
AddImageToDoc_UnknownIsError(doc, map, image_id) ==
    IF image_id \notin DOMAIN map
    THEN IF image_id = TOO_LARGE
         THEN [doc |-> Append(doc, MarkerParagraph), error |-> None]
         ELSE [doc |-> doc, error |-> ImageError(image_id)]
    ELSE IF ~map[image_id].decodable
         THEN [doc |-> doc, error |-> ImageError(image_id)]
         ELSE [doc |-> Append(doc, PictureParagraph(image_id, map[image_id])),
               error |-> None]

\* _add_image_to_doc: the document afterwards and the returned error
AddImageToDoc(doc, map, image_id) ==
    IF image_id \notin DOMAIN map
    THEN IF image_id = TOO_LARGE
         THEN [doc |-> Append(doc, MarkerParagraph), error |-> None]
         ELSE [doc |-> doc, error |-> None]
    ELSE IF ~map[image_id].decodable
         THEN [doc |-> doc, error |-> ImageError(image_id)]
         ELSE [doc |-> Append(doc, PictureParagraph(image_id, map[image_id])),
               error |-> None]

\* the asset left in the registry
DelImage_Keep(map, image_id) == map

\* the asset left in the registry when its bytes could not be embedded
DelImage_UnlessFailed(map, image_id) ==
    IF map[image_id].decodable
    THEN [k \in DOMAIN map \ {image_id} |-> map[k]]
    ELSE map

\* del self._image_map[image_id]
DelImage(map, image_id) == [k \in DOMAIN map \ {image_id} |-> map[k]]

\* one iteration of "for line in improved_text.split('\n')"
recompose_line(t) ==
    /\ call[t].pc = "recompose"
    /\ call[t].line_no <= Len(call[t].improved_text)
    /\ LET c == call[t]
           line == c.improved_text[c.line_no]
           flushed == FlushLines(c.new_doc, c.current_lines)
       IN IF IsBlank(line)
          THEN /\ call' = [call EXCEPT ![t].new_doc = flushed,
                                       ![t].current_lines = <<>>,
                                       ![t].line_no = @ + 1]
               /\ UNCHANGED _image_map
          ELSE IF ImageMatch(line)
          THEN LET image_id == ImageMatchId(line)
                   added == AddImageToDoc(flushed, _image_map, image_id)
               IN /\ call' = [call EXCEPT
                        ![t].new_doc = added.doc,
                        ![t].current_lines = <<>>,
                        ![t].errors = IF added.error # None
                                      THEN Append(@, added.error) ELSE @,
                        ![t].line_no = @ + 1]
                  /\ _image_map' = IF image_id \in DOMAIN _image_map
                                   THEN DelImage(_image_map, image_id)
                                   ELSE _image_map
          ELSE /\ call' = [call EXCEPT ![t].current_lines = Append(@, line),
                                       ![t].line_no = @ + 1]
               /\ UNCHANGED _image_map
    /\ UNCHANGED <<uuid_next, tempVars, httpVars, probe>>

\* lines 412-432: the remaining lines and the returned dictionary
improve_document_return(t) ==
    /\ call[t].pc = "recompose"
    /\ call[t].line_no > Len(call[t].improved_text)
    /\ LET c == call[t]
           final == FlushLines(c.new_doc, c.current_lines)
       IN call' = [call EXCEPT
             ![t].new_doc = final,
             ![t].current_lines = <<>>,
             ![t].result = [success |-> TRUE,
                            original_text |-> c.original_text,
                            improvements |-> c.improved_text,
                            formatted_doc |-> final,
                            errors |-> IF c.errors # <<>> THEN List(c.errors)
                                       ELSE None],
             ![t].pc = "done"]
    /\ UNCHANGED <<_image_map, uuid_next, tempVars, httpVars, probe>>

\* ---- specifications ---------------------------------------------------------
\* one request at a time
Next == \E t \in {1} :
    \/ upload_file(t, Docs)
    \/ extract_text_and_images(t)
    \/ improve_document_checks(t)
    \/ chat_completions_create(t, GatewayOutcomes(call[t].original_text))
    \/ recompose_line(t)
    \/ improve_document_return(t)

Spec == Init /\ [][Next]_vars

\* two requests served at the same time by the one doc_processor of app.py
ConcDocs ==
    { <<<<Run("", ImgSmall)>>>>,
      <<<<Run("a", None)>>, <<Run("", ImgSmall)>>>> }

ConcOutcomes(text) ==
    {[kind |-> "raise"], [kind |-> "identity", content |-> Rewrite("identity", text)]}

NextConc == \E t \in Threads :
    \/ upload_file(t, ConcDocs)
    \/ extract_text_and_images(t)
    \/ improve_document_checks(t)
    \/ chat_completions_create(t, ConcOutcomes(call[t].original_text))
    \/ recompose_line(t)
    \/ improve_document_return(t)

SpecConc == Init /\ [][NextConc]_vars

\* ---- what the claims speak of ---------------------------------------------
RECURSIVE Flat(_)
Flat(seqs) == IF seqs = <<>> THEN <<>> ELSE Head(seqs) \o Flat(Tail(seqs))

IsImageRun(run) == run.image # None
IsPlaceholder(tok) == tok.k = "img"
IsSentinel(tok) == tok.k = "img" /\ tok.id = TOO_LARGE
FitsLimit(img) == img.resolves /\ img.size <= MAX_IMAGE_SIZE
OverLimit(img) == img.resolves /\ img.size > MAX_IMAGE_SIZE

\* the images of a document in document order
DocImages(doc) ==
    LET runs == SelectSeq(Flat(doc), IsImageRun)
    IN [i \in 1..Len(runs) |-> runs[i].image]

\* the placeholder tokens of a text in reading order
PlaceholderTokens(text) == SelectSeq(Flat(text), IsPlaceholder)

RECURSIVE SeqSizeSum(_)
SeqSizeSum(imgs) ==
    IF imgs = <<>> THEN 0 ELSE Head(imgs).size + SeqSizeSum(Tail(imgs))

Extracted(c) == c.pc \in {"check", "rewrite", "recompose", "done"}
Returned(c) == c.pc = "done"

Pictures(doc) == SelectSeq(doc, LAMBDA p : p.kind = "picture")
Markers(doc) == SelectSeq(doc, LAMBDA p : p.kind = "marker")

\* C1: after decomposition of a document with N images, none above the
\* per-image threshold, the registry holds exactly N ids, the text holds
\* exactly N placeholder tokens, pairwise different, the i-th token naming
\* the id under which the i-th image of the document is registered.
DecompositionRegistersEveryImage ==
    LET c == call[1]
        imgs == DocImages(c.doc)
        toks == PlaceholderTokens(c.original_text)
    IN (c.pc \in {"check", "rewrite"}
          /\ \A i \in 1..Len(imgs) : FitsLimit(imgs[i]))
       => /\ Cardinality(DOMAIN _image_map) = Len(imgs)
          /\ Len(toks) = Len(imgs)
          /\ \A i \in 1..Len(toks) :
                /\ toks[i].id \in DOMAIN _image_map
                /\ _image_map[toks[i].id] = imgs[i]
          /\ \A i, j \in 1..Len(toks) : i # j => toks[i].id # toks[j].id
          /\ DOMAIN _image_map = {toks[i].id : i \in 1..Len(toks)}

ThreeImagesRegistered ==
    LET c == call[1]
        imgs == DocImages(c.doc)
    IN /\ c.pc = "check"
       /\ Len(imgs) = 3
       /\ \A i \in 1..Len(imgs) : FitsLimit(imgs[i])
       /\ Cardinality(DOMAIN _image_map) = 3

\* C2: when the rewritten text is the decomposed text unchanged and no
\* embedding error is reported, the output document holds as many pictures
\* as decomposition registered images.
RoundTripKeepsImageCount ==
    LET c == call[1]
    IN (Returned(c) /\ c.rewrite = "identity" /\ c.result.success
          /\ c.result.errors = None)
       => Len(Pictures(c.result.formatted_doc)) = Cardinality(DOMAIN c.registered)

\* C3: an image above the per-image threshold is never in the registry and
\* gets no id; decomposition goes on and puts one sentinel placeholder in
\* the text for it; every sentinel placeholder line of the rewritten text
\* becomes a paragraph of plain text showing the marker, never a picture and
\* never an error.
OversizedImageBecomesSentinel ==
    LET c == call[1]
        imgs == DocImages(c.doc)
        toks == PlaceholderTokens(c.original_text)
    IN /\ \A id \in DOMAIN _image_map : _image_map[id].size <= MAX_IMAGE_SIZE
       /\ c.pc \in {"check", "rewrite"}
            => /\ Len(SelectSeq(toks, IsSentinel)) = Len(SelectSeq(imgs, OverLimit))
               /\ Cardinality(DOMAIN _image_map) = Len(SelectSeq(imgs, FitsLimit))
               /\ uuid_next = 1 + Len(SelectSeq(imgs, FitsLimit))
               /\ Len(SelectSeq(imgs, OverLimit)) > 0 => c.original_text # <<>>
       /\ (Returned(c) /\ c.result.success)
            => /\ Len(Markers(c.new_doc)) =
                    Len(SelectSeq(c.improved_text,
                          LAMBDA l : LStrip(l) # <<>> /\ IsSentinel(Head(LStrip(l)))))
               /\ \A i \in 1..Len(c.new_doc) :
                    /\ c.new_doc[i].kind = "picture" => c.new_doc[i].image_id # TOO_LARGE
                    /\ c.new_doc[i].kind = "marker"
                         => c.new_doc[i].lines = <<<<Placeholder(TOO_LARGE)>>>>
               /\ \A i \in 1..Len(c.errors) : c.errors[i].image_id # TOO_LARGE

SentinelRenderedAsText ==
    LET c == call[1]
    IN /\ Returned(c) /\ c.result.success
       /\ Len(SelectSeq(DocImages(c.doc), OverLimit)) = 1
       /\ Len(Markers(c.new_doc)) = 1
       /\ c.result.errors = None

\* C4: when decomposition yields nothing but whitespace, improve_document
\* returns the error "Document is empty" and the gateway is not called.
EmptyDocumentStopsBeforeGateway ==
    LET c == call[1]
    IN (Extracted(c) /\ \A i \in 1..Len(c.doc) : \A j \in 1..Len(c.doc[i]) :
                           c.doc[i][j].image = None /\ c.doc[i][j].text \in {"", " "})
       => /\ c.original_text = <<>>
          /\ c.gateway_calls = 0
          /\ c.pc \in {"check", "done"}
          /\ Returned(c) => c.result = [success |-> FALSE, error |-> "Document is empty"]

BlankDocumentRejected ==
    LET c == call[1]
    IN /\ Returned(c)
       /\ Len(c.doc) = 2
       /\ c.result = [success |-> FALSE, error |-> "Document is empty"]
       /\ c.gateway_calls = 0

\* C5: when the registered images, each within the per-image threshold,
\* together exceed the aggregate threshold, improve_document returns the
\* aggregate-size error, the gateway is not called and no output document
\* is built.
AggregateLimitStopsBeforeGateway ==
    LET c == call[1]
        imgs == SelectSeq(DocImages(c.doc), FitsLimit)
    IN (Extracted(c) /\ SeqSizeSum(imgs) > MAX_TOTAL_SIZE)
       => /\ c.gateway_calls = 0
          /\ c.new_doc = <<>>
          /\ c.pc \in {"check", "done"}
          /\ Returned(c)
               => /\ DOMAIN c.result = {"success", "error"}
                  /\ ~c.result.success
                  /\ c.result.error = "Total image size exceeds maximum allowed size (50MB)"

AggregateLimitRejected ==
    LET c == call[1]
    IN /\ Returned(c)
       /\ SeqSizeSum(DocImages(c.doc)) > MAX_TOTAL_SIZE
       /\ \A id \in DOMAIN _image_map : _image_map[id].size <= MAX_IMAGE_SIZE
       /\ ~c.result.success

\* C6: when the gateway call raises, the result is an error result and
\* nothing else: success false, an error string, no original text, no
\* rewritten text, no output document.
GatewayFailureReturnsOnlyError ==
    LET c == call[1]
    IN (Returned(c) /\ c.rewrite = "raise")
       => /\ DOMAIN c.result = {"success", "error"}
          /\ ~c.result.success
          /\ c.result.error = "Connection error."
          /\ c.new_doc = <<>>

GatewayRaised ==
    LET c == call[1]
    IN Returned(c) /\ c.rewrite = "raise" /\ c.gateway_calls = 1
         /\ DOMAIN c.registered # {}

\* the embeddings that fail while the lines are recomposed, in the order of
\* their placeholder lines: an id fails where its line is first met, if it
\* is registered and PIL cannot open its bytes
RECURSIVE FailedEmbeddings(_, _, _)
FailedEmbeddings(lines, registered, seen) ==
    IF lines = <<>> THEN <<>>
    ELSE LET l == LStrip(Head(lines))
         IN IF l # <<>> /\ IsPlaceholder(Head(l))
            THEN LET id == Head(l).id
                 IN (IF id \in DOMAIN registered /\ id \notin seen
                        /\ ~registered[id].decodable
                     THEN <<id>> ELSE <<>>)
                    \o FailedEmbeddings(Tail(lines), registered, seen \cup {id})
            ELSE FailedEmbeddings(Tail(lines), registered, seen)

SessionDestroyedOnReturn ==
    Returned(call[1]) => DOMAIN _image_map = {}

\* C10: improve_document always returns, and what it returns carries a
\* success flag: a success result with the output document, or an error
\* result with an error string and nothing else.
AlwaysReturnsResult ==
    LET c == call[1]
    IN /\ c.pc \in {"idle", "extract", "check", "rewrite", "recompose", "done"}
       /\ ~Returned(c) => c.result = None
       /\ Returned(c)
            => /\ "success" \in DOMAIN c.result
               /\ IF c.result.success
                  THEN /\ "formatted_doc" \in DOMAIN c.result
                       /\ "error" \notin DOMAIN c.result
                  ELSE /\ DOMAIN c.result = {"success", "error"}
                       /\ c.result.error \in
                            {"Document is empty",
                             "Total image size exceeds maximum allowed size (50MB)",
                             "Connection error.",
                             "'NoneType' object has no attribute 'split'"}

NoContentReturnedAsError ==
    LET c == call[1]
    IN Returned(c) /\ c.rewrite = "none" /\ ~c.result.success

PictureIds(doc) == {doc[i].image_id : i \in {j \in 1..Len(doc) : doc[j].kind = "picture"}}

\* C9: whatever the interleaving of two conversions, the output of each
\* successful one embeds exactly the images registered for its own document.
ConversionsDoNotInterfere ==
    \A t \in Threads :
        (Returned(call[t]) /\ call[t].result.success)
            => PictureIds(call[t].result.formatted_doc) = DOMAIN call[t].registered

\* ==== image scaling (_add_image_to_doc, lines 277-306) =======================
\* The floating-point inches of the code are modelled as exact fractions
\* n/d in lowest terms, with n >= 0 and d > 0.
MaxPixelSteps == 64

MAX_WIDTH_INCHES == 6
MAX_HEIGHT_INCHES == 8
PIXELS_PER_INCH == 96

RECURSIVE GCD(_, _)
GCD(a, b) == IF b = 0 THEN a ELSE GCD(b, a % b)

Frac(n, d) == [n |-> n \div GCD(n, d), d |-> d \div GCD(n, d)]
FracMul(a, b) == Frac(a.n * b.n, a.d * b.d)
FracDiv(a, b) == Frac(a.n * b.d, a.d * b.n)
FracGt(a, b) == a.n * b.d > b.n * a.d
FracLe(a, b) == a.n * b.d <= b.n * a.d
FracEq(a, b) == a.n * b.d = b.n * a.d

\* the second step keeping the width it had
ScaledInches_NoWidthRescale(width, height) ==
    LET w0 == Frac(width, PIXELS_PER_INCH)
        h0 == Frac(height, PIXELS_PER_INCH)
        maxw == Frac(MAX_WIDTH_INCHES, 1)
        maxh == Frac(MAX_HEIGHT_INCHES, 1)
        wide == FracGt(w0, maxw)
        w1 == IF wide THEN maxw ELSE w0
        h1 == IF wide THEN FracMul(h0, FracDiv(maxw, w0)) ELSE h0
        tall == FracGt(h1, maxh)
        h2 == IF tall THEN maxh ELSE h1
    IN [width_inches |-> w1, height_inches |-> h2]

\* lines 287-299: width_inches, height_inches after the two "if"s
ScaledInches(width, height) ==
    LET w0 == Frac(width, PIXELS_PER_INCH)
        h0 == Frac(height, PIXELS_PER_INCH)
        maxw == Frac(MAX_WIDTH_INCHES, 1)
        maxh == Frac(MAX_HEIGHT_INCHES, 1)
        wide == FracGt(w0, maxw)
        w1 == IF wide THEN maxw ELSE w0
        h1 == IF wide THEN FracMul(h0, FracDiv(maxw, w0)) ELSE h0
        tall == FracGt(h1, maxh)
        h2 == IF tall THEN maxh ELSE h1
        w2 == IF tall THEN FracMul(w1, FracDiv(maxh, h1)) ELSE w1
    IN [width_inches |-> w2, height_inches |-> h2]

\* img.size of the images opened
PixelSizes == {1, 575, 577, 767, 769, 1500, 2000} \cup {32 * k : k \in 1..MaxPixelSteps}

InitScale ==
    /\ InitPipeline /\ InitTemp /\ InitHttp
    /\ probe \in {[op |-> "image_size", width |-> w, height |-> h, out |-> None] :
                     w \in PixelSizes, h \in PixelSizes}

\* "with Image.open(image_stream) as img" up to line 299
image_size(p) ==
    /\ p.op = "image_size"
    /\ p.out = None
    /\ probe' = [p EXCEPT !.out = ScaledInches(p.width, p.height)]
    /\ UNCHANGED <<_image_map, uuid_next, call, tempVars, httpVars>>

NextScale == image_size(probe)

SpecScale == InitScale /\ [][NextScale]_vars

Scaled(p) == p.op = "image_size" /\ p.out # None

\* C11: for every image of W x H pixels the size computed at 96 pixels per
\* inch is at most 6 inches wide and 8 inches high, has the ratio W:H within
\* 1%, is never larger than W/96 x H/96 and is W/96 x H/96 when that fits;
\* the width cap comes first and the height cap is tested on the
\* width-scaled height: a wide image becomes 6 x 6H/W unless 6H/W exceeds 8,
\* in which case, as for an image that is only too tall, it is 8W/H x 8.
ImageScaledToPage ==
    Scaled(probe) =>
       LET W == probe.width
           H == probe.height
           w == probe.out.width_inches
           h == probe.out.height_inches
           natw == Frac(W, PIXELS_PER_INCH)
           nath == Frac(H, PIXELS_PER_INCH)
           r == FracDiv(w, h)
           t == Frac(W, H)
           ratio == r.n * t.d
           exact == t.n * r.d
           diff == IF ratio > exact THEN ratio - exact ELSE exact - ratio
           wide == W > MAX_WIDTH_INCHES * PIXELS_PER_INCH
           tallAfter == IF wide THEN MAX_WIDTH_INCHES * H > MAX_HEIGHT_INCHES * W
                        ELSE H > MAX_HEIGHT_INCHES * PIXELS_PER_INCH
       IN /\ w.n > 0 /\ w.d > 0 /\ h.n > 0 /\ h.d > 0
          /\ FracLe(w, Frac(MAX_WIDTH_INCHES, 1))
          /\ FracLe(h, Frac(MAX_HEIGHT_INCHES, 1))
          /\ 100 * diff <= exact
          /\ FracLe(w, natw) /\ FracLe(h, nath)
          /\ (~wide /\ ~tallAfter) => FracEq(w, natw) /\ FracEq(h, nath)
          /\ (wide /\ ~tallAfter)
                => FracEq(w, Frac(MAX_WIDTH_INCHES, 1))
                   /\ FracEq(h, Frac(MAX_WIDTH_INCHES * H, W))
          /\ tallAfter
                => FracEq(h, Frac(MAX_HEIGHT_INCHES, 1))
                   /\ FracEq(w, Frac(MAX_HEIGHT_INCHES * W, H))

\* an image too wide whose width-scaled height is still too high
WideImageStillTooTall ==
    /\ Scaled(probe)
    /\ probe.width = 1024 /\ probe.height = 2000
    /\ FracEq(probe.out.height_inches, Frac(MAX_HEIGHT_INCHES, 1))
    /\ FracGt(Frac(MAX_WIDTH_INCHES, 1), probe.out.width_inches)

\* ==== the registry during recomposition ========================================
\* every id registered by decomposition heads a line of the rewritten text
AllPlaceholdersProcessed(c) ==
    \A id \in DOMAIN c.registered :
        \E i \in 1..Len(c.improved_text) :
            ImageMatch(c.improved_text[i]) /\ ImageMatchId(c.improved_text[i]) = id

\* C12: during recomposition an image is deleted from the registry in the
\* step that inserts it, before the next line is processed: no step of
\* recomposition adds or changes a registry entry, the id of a picture just
\* inserted is no longer registered, and when recomposition ends after the
\* placeholder of every registered id was processed the registry is empty.
AssetDeletedAfterInsertion ==
    [][ call[1].pc = "recompose" =>
          LET c == call[1]
              d == call'[1]
              before == Pictures(c.new_doc)
              after == Pictures(d.new_doc)
          IN /\ DOMAIN _image_map' \subseteq DOMAIN _image_map
             /\ \A id \in DOMAIN _image_map' : _image_map'[id] = _image_map[id]
             /\ Len(after) > Len(before)
                  => /\ Len(after) = Len(before) + 1
                     /\ d.line_no = c.line_no + 1
                     /\ after[Len(after)].image_id \in DOMAIN _image_map
                     /\ after[Len(after)].image_id \notin DOMAIN _image_map'
             /\ (d.pc = "done" /\ AllPlaceholdersProcessed(c))
                  => DOMAIN _image_map' = {} ]_vars

\* two registered images, both embedded, and the registry empty at the end
RegistryEmptiedByRecomposition ==
    LET c == call[1]
    IN /\ Returned(c) /\ c.result.success
       /\ Cardinality(DOMAIN c.registered) = 2
       /\ AllPlaceholdersProcessed(c)
       /\ Len(Pictures(c.new_doc)) = 2
       /\ DOMAIN _image_map = {}

\* ==== placeholders of the rewritten text ======================================
\* the ids of a sequence of tokens, each id once, in order of first occurrence
RECURSIVE FirstIds(_, _)
FirstIds(toks, seen) ==
    IF toks = <<>> THEN <<>>
    ELSE IF Head(toks).id \in seen THEN FirstIds(Tail(toks), seen)
    ELSE <<Head(toks).id>> \o FirstIds(Tail(toks), seen \cup {Head(toks).id})

\* C13: every placeholder of the rewritten text whose id is registered (with
\* an image that can be decoded) gets that image embedded, in the order of
\* the tokens, whether the token stands alone on its line or shares the
\* line with other text.
EveryPlaceholderEmbedded ==
    LET c == call[1]
        toks == SelectSeq(PlaceholderTokens(c.improved_text),
                    LAMBDA tok : tok.id \in DOMAIN c.registered
                                    /\ c.registered[tok.id].decodable)
        pics == Pictures(c.new_doc)
    IN (Returned(c) /\ c.result.success)
          => [i \in 1..Len(pics) |-> pics[i].image_id] = FirstIds(toks, {})

\* ==== the temporary directory (lines 49-71) ===================================
MaxDirs == 3

\* _cleanup_temp_dir that resets the fields and leaves the directory on disk
CleanupTempDir_NoRmtree(temp_dir, dirs) ==
    [temp_dir |-> None, disk |-> dirs, image_map |-> EmptyMap]

\* _cleanup_temp_dir: shutil.rmtree of an existing directory, then the reset
\* of _temp_dir and _image_map
CleanupTempDir(temp_dir, dirs) ==
    [temp_dir |-> None,
     disk |-> IF temp_dir # None /\ temp_dir \in dirs
              THEN dirs \ {temp_dir} ELSE dirs,
     image_map |-> EmptyMap]

\* the directory tempfile.mkdtemp(prefix='docimprover_') makes at its n-th call
MkDtemp(n) == [path |-> n]

\* "with processor:" entered
__enter__ ==
    /\ ctx.block \in {"out", "left"}
    /\ ctx' = [ctx EXCEPT !.block = "in", !.raised = FALSE, !.propagated = FALSE]
    /\ UNCHANGED <<_image_map, uuid_next, call, _temp_dir, disk, mkdtemp_next,
                   httpVars, probe>>

\* the block left, normally or because its body raised: __exit__ runs the
\* cleanup and returns None, so the exception goes on to the caller
__exit__ ==
    /\ ctx.block = "in"
    /\ \E exc \in BOOLEAN :
         LET r == CleanupTempDir(_temp_dir, disk)
             suppress == FALSE
         IN /\ _temp_dir' = r.temp_dir
            /\ disk' = r.disk
            /\ _image_map' = r.image_map
            /\ ctx' = [ctx EXCEPT !.block = "left", !.raised = exc,
                                  !.propagated = exc /\ ~suppress]
    /\ UNCHANGED <<uuid_next, call, mkdtemp_next, httpVars, probe>>

_create_temp_dir ==
    /\ mkdtemp_next <= MaxDirs
    /\ IF _temp_dir = None
       THEN /\ _temp_dir' = MkDtemp(mkdtemp_next)
            /\ disk' = disk \cup {MkDtemp(mkdtemp_next)}
            /\ mkdtemp_next' = mkdtemp_next + 1
       ELSE UNCHANGED <<_temp_dir, disk, mkdtemp_next>>
    /\ ctx' = [ctx EXCEPT !.returned = _temp_dir']
    /\ UNCHANGED <<_image_map, uuid_next, call, httpVars, probe>>

_cleanup_temp_dir ==
    /\ LET r == CleanupTempDir(_temp_dir, disk)
       IN /\ _temp_dir' = r.temp_dir
          /\ disk' = r.disk
          /\ _image_map' = r.image_map
    /\ UNCHANGED <<uuid_next, call, mkdtemp_next, ctx, httpVars, probe>>

\* one processor used inside and outside "with" blocks, one conversion
NextTemp ==
    \/ __enter__
    \/ __exit__
    \/ _create_temp_dir
    \/ _cleanup_temp_dir
    \/ upload_file(1, ConcDocs)
    \/ extract_text_and_images(1)
    \/ improve_document_checks(1)
    \/ chat_completions_create(1, ConcOutcomes(call[1].original_text))
    \/ recompose_line(1)
    \/ improve_document_return(1)

SpecTemp == Init /\ [][NextTemp]_vars

MaxPathLen == 3

\* app.config['UPLOAD_FOLDER']
UPLOAD_FOLDER == <<"", "srv", "uploads">>

\* the files that may exist on the disk of the server
CandidateFiles ==
    { UPLOAD_FOLDER \o <<"s1", "media", "a.png">>,
      UPLOAD_FOLDER \o <<"s2", "media", "b.png">>,
      <<"", "srv", "media", "secret.png">> }

\* the directories of a disk holding the upload folder and the given files
Directories(files) ==
    {SubSeq(UPLOAD_FOLDER, 2, n) : n \in 1..Len(UPLOAD_FOLDER)}
        \cup UNION {{SubSeq(f, 2, n) : n \in 1..(Len(f) - 1)} : f \in files}

\* '..' in filepath or filepath.startswith('/')
Suspicious(filepath) ==
    \/ \E i \in 1..Len(filepath) : filepath[i] = ".."
    \/ (filepath # <<>> /\ filepath[1] = "")

\* os.path.join(a, b): an absolute b replaces a
PathJoin(a, b) == IF b # <<>> /\ b[1] = "" THEN b ELSE a \o b

\* the file or directory the operating system reaches by walking a path from
\* "/" through the directories dirs, or None when a name on the way is
\* missing
RECURSIVE Walk(_, _, _, _)
Walk(path, at, dirs, files) ==
    IF path = <<>> THEN at
    ELSE LET name == Head(path)
         IN IF at \notin dirs THEN None
            ELSE IF name \in {"", "."} THEN Walk(Tail(path), at, dirs, files)
            ELSE IF name = ".."
                 THEN Walk(Tail(path),
                           IF at = <<>> THEN at ELSE SubSeq(at, 1, Len(at) - 1),
                           dirs, files)
            ELSE Walk(Tail(path), Append(at, name), dirs, files)

\* serve_media: (status, the file sent)
ServeMedia(files, session_id, filepath) ==
    IF Suspicious(filepath) THEN [status |-> 404, sent |-> None]
    ELSE LET session_dir == PathJoin(UPLOAD_FOLDER, <<session_id>>)
             media_path == PathJoin(PathJoin(session_dir, <<"media">>), filepath)
             real == Walk(media_path, <<>>, Directories(files), files)
         IN IF real = None \/ (<<"">> \o real) \notin files
            THEN [status |-> 404, sent |-> None]
            ELSE [status |-> 200, sent |-> <<"">> \o real]

\* <session_id>: any text without "/"; <path:filepath>: any text
SessionIds == {"s1", "s2", ".."}
PathNames == {"a.png", "b.png", "secret.png", "media", "s2", "..", ""}

RECURSIVE PathsOfLen(_)
PathsOfLen(n) ==
    IF n = 0 THEN {<<>>}
    ELSE {Append(p, x) : p \in PathsOfLen(n - 1), x \in PathNames}

FilePaths == UNION {PathsOfLen(n) : n \in 1..MaxPathLen}

InitMedia ==
    /\ InitPipeline /\ InitTemp /\ InitHttp
    /\ probe \in {[op |-> "serve_media", files |-> fs, session_id |-> sid,
                   filepath |-> fp, out |-> None] :
                     fs \in SUBSET CandidateFiles, sid \in SessionIds,
                     fp \in FilePaths}

serve_media(p) ==
    /\ p.op = "serve_media"
    /\ p.out = None
    /\ probe' = [p EXCEPT !.out = ServeMedia(p.files, p.session_id, p.filepath)]
    /\ UNCHANGED <<_image_map, uuid_next, call, tempVars, httpVars>>

NextMedia == serve_media(probe)

SpecMedia == InitMedia /\ [][NextMedia]_vars

IsPrefix(a, b) == Len(a) <= Len(b) /\ SubSeq(b, 1, Len(a)) = a

\* C15: serve_media sends no file outside UPLOAD_FOLDER/<session_id>/media of
\* the session asked for: a filepath with ".." or a leading "/" gets 404, a
\* path that is not an existing file gets 404, and whatever session_id and
\* filepath are, the file sent lies in the media directory of that session
\* under the upload root.
MediaStaysInSessionDirectory ==
    (probe.op = "serve_media" /\ probe.out # None)
       => /\ Suspicious(probe.filepath) => probe.out.status = 404
          /\ probe.out.status \in {200, 404}
          /\ probe.out.status = 200
               => /\ probe.out.sent \in probe.files
                  /\ IsPrefix(UPLOAD_FOLDER \o <<probe.session_id, "media">>,
                              probe.out.sent)

\* ==== upload and download (app.py, lines 303-396) =============================
\* the clients and the file names they upload; every name passes the test of
\* line 310
Sessions == [t \in Threads |-> IF t = 1 THEN "session1" ELSE "session2"]
Filenames == {"test.docx", "report.docx"}

RECURSIVE RStrip(_)
RStrip(line) ==
    IF line = <<>> THEN <<>>
    ELSE IF IsBlankToken(line[Len(line)])
         THEN RStrip(SubSeq(line, 1, Len(line) - 1))
         ELSE line

\* lines 325-368: improved_doc gets one block for every non-blank line of
\* result['improvements'], stripped
AppDocument(lines) ==
    LET kept == SelectSeq(lines, LAMBDA l : ~IsBlank(l))
    IN [i \in 1..Len(kept) |-> RStrip(LStrip(kept[i]))]

\* line 371: f"improved_{file.filename}"
ImprovedFilename(req) == "improved_" \o req.filename

\* jsonify(result) of line 378: the result of a successful conversion holds
\* the python-docx Document under 'formatted_doc', which the JSON encoder
\* refuses with a TypeError that line 380 catches
JsonifyError ==
    [status |-> 400,
     body |-> [error |-> "Error processing document: Object of type Document is not JSON serializable"]]

InitUpload ==
    /\ InitPipeline /\ InitTemp
    /\ request \in {[t \in Threads |-> [session |-> Sessions[t], filename |-> f[t]]] :
                       f \in [Threads -> Filenames]}
    /\ response = [t \in Threads |-> None]
    /\ tmp_files = EmptyMap
    /\ probe = None

\* upload_file from line 321 on, once improve_document has returned
upload_file_response(t) ==
    /\ call[t].pc = "done"
    /\ request[t] # None
    /\ response[t] = None
    /\ LET result == call[t].result
           improved_filename == ImprovedFilename(request[t])
       IN IF "error" \in DOMAIN result
          THEN /\ response' = [response EXCEPT ![t] = [status |-> 400, body |-> result]]
               /\ UNCHANGED tmp_files
          ELSE /\ tmp_files' =
                     [n \in DOMAIN tmp_files \cup {improved_filename} |->
                         IF n = improved_filename
                         THEN AppDocument(result.improvements)
                         ELSE tmp_files[n]]
               /\ response' = [response EXCEPT ![t] = JsonifyError]
    /\ UNCHANGED <<_image_map, uuid_next, call, tempVars, request, probe>>

\* download_file: send_from_directory(tempfile.gettempdir(), filename); a
\* missing file raises NotFound, which line 394 turns into status 400
download_file(names) ==
    /\ \E filename \in names :
         probe' = IF filename \in DOMAIN tmp_files
                  THEN [op |-> "download_file", filename |-> filename,
                        status |-> 200, content |-> tmp_files[filename]]
                  ELSE [op |-> "download_file", filename |-> filename,
                        status |-> 400, content |-> None]
    /\ UNCHANGED <<_image_map, uuid_next, call, tempVars, httpVars>>

NextUpload ==
    \/ \E t \in Threads :
        \/ upload_file(t, ConcDocs)
        \/ extract_text_and_images(t)
        \/ improve_document_checks(t)
        \/ chat_completions_create(t, ConcOutcomes(call[t].original_text))
        \/ recompose_line(t)
        \/ improve_document_return(t)
        \/ upload_file_response(t)
    \/ download_file({ImprovedFilename(request[t]) : t \in Threads})

SpecUpload == InitUpload /\ [][NextUpload]_vars

Answered(t) ==
    /\ response[t] # None
    /\ Returned(call[t]) /\ call[t].result.success

\* C16: when two sessions have each uploaded a document under the same file
\* name and both conversions succeeded, the two responses name different
\* improved_file values, and the file each response names is in the
\* download directory with the content made for that session.
SessionsKeepTheirOwnDocuments ==
    \A s, t \in Threads :
        (s # t /\ Answered(s) /\ Answered(t)
             /\ request[s].session # request[t].session
             /\ request[s].filename = request[t].filename)
          => /\ "improved_file" \in DOMAIN response[s].body
             /\ "improved_file" \in DOMAIN response[t].body
             /\ response[s].body.improved_file # response[t].body.improved_file
             /\ response[s].body.improved_file \in DOMAIN tmp_files
             /\ tmp_files[response[s].body.improved_file]
                    = AppDocument(call[s].result.improvements)

\* ==== Python regular expressions, as far as the program uses them =============
\* A string is a TLA+ string; SubSeq(s, i, i) is its i-th character.  A
\* pattern is a sequence of elements: a literal text, a character class with
\* its repetition (greedy or lazy), a choice between literal texts, the end
\* of the text.  Every group of the program's patterns is one element.
Lit(s) == [k |-> "lit", s |-> s]
Class(chars, lo, hi) == [k |-> "cls", chars |-> chars, neg |-> FALSE,
                         lo |-> lo, hi |-> hi, lazy |-> FALSE]
NotClass(chars, lo, hi) == [k |-> "cls", chars |-> chars, neg |-> TRUE,
                            lo |-> lo, hi |-> hi, lazy |-> FALSE]
Lazy(e) == [e EXCEPT !.lazy = TRUE]
Alt(texts) == [k |-> "alt", alts |-> texts]
EndOfText == [k |-> "eol"]

\* the upper limit of "+" and "*"
Unlimited == -1

\* \s, \d and the characters "." refuses
Whitespace == {" ", "\t", "\n", "\r", "\f"}
Digits == {"0", "1", "2", "3", "4", "5", "6", "7", "8", "9"}
Newline == {"\n"}

CharAt(s, i) == SubSeq(s, i, i)
From(s, i) == SubSeq(s, i, Len(s))

InClass(e, ch) == (ch \in e.chars) # e.neg

\* how many characters of the class stand at position pos, at most max
RECURSIVE RunLength(_, _, _, _)
RunLength(e, s, pos, max) ==
    IF max = 0 \/ pos > Len(s) \/ ~InClass(e, CharAt(s, pos)) THEN 0
    ELSE 1 + RunLength(e, s, pos + 1, max - 1)

NoMatch == <<-1>>

SetMin(S) == CHOOSE x \in S : \A y \in S : x <= y
SetMax(S) == CHOOSE x \in S : \A y \in S : x >= y

\* the match of the elements k.. of pat at position pos that the backtracking
\* matcher finds first: the position after each element, or NoMatch
RECURSIVE MatchFrom(_, _, _, _)
MatchFrom(pat, k, s, pos) ==
    IF k > Len(pat) THEN <<>>
    ELSE LET e == pat[k]
         IN CASE e.k = "lit" ->
                   LET end == pos + Len(e.s)
                   IN IF end - 1 <= Len(s) /\ SubSeq(s, pos, end - 1) = e.s
                      THEN LET rest == MatchFrom(pat, k + 1, s, end)
                           IN IF rest = NoMatch THEN NoMatch ELSE <<end>> \o rest
                      ELSE NoMatch
              [] e.k = "eol" ->
                   IF pos = Len(s) + 1
                   THEN LET rest == MatchFrom(pat, k + 1, s, pos)
                        IN IF rest = NoMatch THEN NoMatch ELSE <<pos>> \o rest
                   ELSE NoMatch
              [] e.k = "cls" ->
                   LET most == RunLength(e, s, pos,
                                   IF e.hi = Unlimited THEN Len(s) ELSE e.hi)
                       rests == [n \in e.lo..most |->
                                    MatchFrom(pat, k + 1, s, pos + n)]
                       ok == {n \in e.lo..most : rests[n] # NoMatch}
                   IN IF ok = {} THEN NoMatch
                      ELSE LET n == IF e.lazy THEN SetMin(ok) ELSE SetMax(ok)
                           IN <<pos + n>> \o rests[n]
              [] e.k = "alt" ->
                   LET rests == [i \in 1..Len(e.alts) |->
                                    MatchFrom(<<Lit(e.alts[i])>> \o SubSeq(pat, k + 1, Len(pat)),
                                              1, s, pos)]
                       ok == {i \in 1..Len(e.alts) : rests[i] # NoMatch}
                   IN IF ok = {} THEN NoMatch ELSE rests[SetMin(ok)]

\* re.match(pat, s)
ReMatch(pat, s) == MatchFrom(pat, 1, s, 1)

\* group(0) and the text of element k of a match that starts at start
Group0(s, start, m) == SubSeq(s, start, m[Len(m)] - 1)
Group(s, start, m, k) == SubSeq(s, IF k = 1 THEN start ELSE m[k - 1], m[k] - 1)

\* re.search(pat, s): the leftmost start at which the pattern matches
ReSearch(pat, s) ==
    LET starts == {p \in 1..(Len(s) + 1) : MatchFrom(pat, 1, s, p) # NoMatch}
    IN IF starts = {} THEN None
       ELSE [start |-> SetMin(starts), m |-> MatchFrom(pat, 1, s, SetMin(starts))]

\* ==== _parse_markdown_line (lines 190-220) =====================================
MaxIndent == 4
MaxHashes == 7
MaxTail == 2

\* ^(#{1,6})\s+(.+)$
HeaderPattern ==
    <<Class({"#"}, 1, 6), Class(Whitespace, 1, Unlimited),
      NotClass(Newline, 1, Unlimited), EndOfText>>
\* ^(\s*)[*+-]\s+(.+)$
ListPattern ==
    <<Class(Whitespace, 0, Unlimited), Class({"*", "+", "-"}, 1, 1),
      Class(Whitespace, 1, Unlimited), NotClass(Newline, 1, Unlimited), EndOfText>>
\* ^(\s*)\d+\.\s+(.+)$
OrderedListPattern ==
    <<Class(Whitespace, 0, Unlimited), Class(Digits, 1, Unlimited), Lit("."),
      Class(Whitespace, 1, Unlimited), NotClass(Newline, 1, Unlimited), EndOfText>>
\* ^\s*>\s+(.+)$
QuotePattern ==
    <<Class(Whitespace, 0, Unlimited), Lit(">"),
      Class(Whitespace, 1, Unlimited), NotClass(Newline, 1, Unlimited), EndOfText>>

Parsed(content, style, level) == [content |-> content, style |-> style, level |-> level]

\* the list level taken as the length of the indentation itself
ParseMarkdownLine_NoHalving(line) ==
    LET header_match == ReMatch(HeaderPattern, line)
        list_match == ReMatch(ListPattern, line)
        ordered_list_match == ReMatch(OrderedListPattern, line)
        quote_match == ReMatch(QuotePattern, line)
    IN IF header_match # NoMatch
       THEN Parsed(Group(line, 1, header_match, 3),
                   "Heading " \o ToString(Len(Group(line, 1, header_match, 1))), 0)
       ELSE IF list_match # NoMatch
       THEN Parsed(Group(line, 1, list_match, 4), "List Bullet",
                   Len(Group(line, 1, list_match, 1)))
       ELSE IF ordered_list_match # NoMatch
       THEN Parsed(Group(line, 1, ordered_list_match, 5), "List Number",
                   Len(Group(line, 1, ordered_list_match, 1)))
       ELSE IF quote_match # NoMatch
       THEN Parsed(Group(line, 1, quote_match, 4), "Quote", 0)
       ELSE Parsed(line, "Normal", 0)

\* _parse_markdown_line: (content, style, list_level)
ParseMarkdownLine(line) ==
    LET header_match == ReMatch(HeaderPattern, line)
        list_match == ReMatch(ListPattern, line)
        ordered_list_match == ReMatch(OrderedListPattern, line)
        quote_match == ReMatch(QuotePattern, line)
    IN IF header_match # NoMatch
       THEN Parsed(Group(line, 1, header_match, 3),
                   "Heading " \o ToString(Len(Group(line, 1, header_match, 1))), 0)
       ELSE IF list_match # NoMatch
       THEN Parsed(Group(line, 1, list_match, 4), "List Bullet",
                   Len(Group(line, 1, list_match, 1)) \div 2)
       ELSE IF ordered_list_match # NoMatch
       THEN Parsed(Group(line, 1, ordered_list_match, 5), "List Number",
                   Len(Group(line, 1, ordered_list_match, 1)) \div 2)
       ELSE IF quote_match # NoMatch
       THEN Parsed(Group(line, 1, quote_match, 4), "Quote", 0)
       ELSE Parsed(line, "Normal", 0)

\* the lines parsed: an indentation, a head, a separator, a tail
RECURSIVE Repeat(_, _)
Repeat(ch, n) == IF n = 0 THEN "" ELSE ch \o Repeat(ch, n - 1)

RECURSIVE Strings(_, _)
Strings(chars, n) ==
    IF n = 0 THEN {""}
    ELSE Strings(chars, n - 1)
            \cup {s \o ch : s \in Strings(chars, n - 1), ch \in chars}

LineIndents == {Repeat(" ", n) : n \in 0..MaxIndent} \cup {"\t", " \t"}
LineHeads ==
    {Repeat("#", n) : n \in 0..MaxHashes}
        \cup {"*", "+", "-", "**", "1.", "12.", "1", "1)", ".", ">", ">>", "a", "a."}
LineSeparators == {"", " ", "  ", "\t"}
LineTails == Strings({"a", " ", "#", "-", "1"}, MaxTail)

MarkdownLines ==
    {i \o h \o sp \o t :
        i \in LineIndents, h \in LineHeads, sp \in LineSeparators, t \in LineTails}

InitLine ==
    /\ InitPipeline /\ InitTemp /\ InitHttp
    /\ probe \in {[op |-> "_parse_markdown_line", line |-> l, out |-> None] :
                     l \in MarkdownLines}

_parse_markdown_line(p) ==
    /\ p.op = "_parse_markdown_line"
    /\ p.out = None
    /\ probe' = [p EXCEPT !.out = ParseMarkdownLine(p.line)]
    /\ UNCHANGED <<_image_map, uuid_next, call, tempVars, httpVars>>

NextLine == _parse_markdown_line(probe)

SpecLine == InitLine /\ [][NextLine]_vars

\* the number of leading characters of s that are in chars
RECURSIVE LeadCount(_, _)
LeadCount(s, chars) ==
    IF s = "" \/ CharAt(s, 1) \notin chars THEN 0
    ELSE 1 + LeadCount(From(s, 2), chars)

Drop(s, n) == From(s, n + 1)
StartsWith(s, t) == Len(s) >= Len(t) /\ SubSeq(s, 1, Len(t)) = t

\* what stands after a marker: whitespace and then content
HasContent(rest) == LeadCount(rest, Whitespace) >= 1 /\ Len(rest) >= 2
\* the content: what follows the whitespace, or, when nothing follows it,
\* its last character
ContentOf(rest) ==
    IF Len(rest) > LeadCount(rest, Whitespace)
    THEN Drop(rest, LeadCount(rest, Whitespace))
    ELSE CharAt(rest, Len(rest))

\* the classification in the order heading, bullet, numbered, blockquote,
\* paragraph
Classified(line) ==
    LET hashes == LeadCount(line, {"#"})
        indent == LeadCount(line, Whitespace)
        body == Drop(line, indent)
        digits == LeadCount(body, Digits)
    IN IF hashes \in 1..6 /\ HasContent(Drop(line, hashes))
       THEN Parsed(ContentOf(Drop(line, hashes)), "Heading " \o ToString(hashes), 0)
       ELSE IF LeadCount(body, {"*", "+", "-"}) >= 1 /\ HasContent(Drop(body, 1))
       THEN Parsed(ContentOf(Drop(body, 1)), "List Bullet", indent \div 2)
       ELSE IF digits >= 1 /\ StartsWith(Drop(body, digits), ".")
               /\ HasContent(Drop(body, digits + 1))
       THEN Parsed(ContentOf(Drop(body, digits + 1)), "List Number", indent \div 2)
       ELSE IF StartsWith(body, ">") /\ HasContent(Drop(body, 1))
       THEN Parsed(ContentOf(Drop(body, 1)), "Quote", 0)
       ELSE Parsed(line, "Normal", 0)

MaxText == 6

\* the backquote of the code pattern, written as a tilde because a string of
\* this module cannot hold a backquote
Backquote == "~"

\* a delimiter, one or more characters taken lazily, the delimiter again
Delimited(d) == <<Lit(d), Lazy(NotClass(Newline, 1, Unlimited)), Lit(d)>>

\* patterns (lines 153-159); {} is the format "plain"
InlinePatterns ==
    <<[pattern |-> Delimited("**"), format |-> "bold"],
      [pattern |-> Delimited("__"), format |-> "bold"],
      [pattern |-> Delimited("*"), format |-> "italic"],
      [pattern |-> Delimited("_"), format |-> "italic"],
      [pattern |-> Delimited(Backquote), format |-> "code"]>>

Span(text, format) == [text |-> text, format |-> format]

NoneYet(text) ==
    [earliest_match |-> None, earliest_pos |-> Len(text) + 1,
     match_format |-> "plain", match_content |-> ""]

\* the loop of lines 168-174 with "<=" for "<": of two matches that start
\* at the same place the later pattern wins
EarliestMatch_LastWins(text, current_pos, i, best) ==
    LET match == ReSearch(InlinePatterns[i].pattern, From(text, current_pos))
    IN IF match # None /\ match.start + current_pos - 1 <= best.earliest_pos
       THEN [earliest_match |-> match,
             earliest_pos |-> match.start + current_pos - 1,
             match_format |-> InlinePatterns[i].format,
             match_content |-> Group(From(text, current_pos), match.start, match.m, 2)]
       ELSE best

\* the loop of lines 168-174 with group(0) for group(1): the matched text
\* keeps its delimiters
EarliestMatch_WholeMatch(text, current_pos, i, best) ==
    LET match == ReSearch(InlinePatterns[i].pattern, From(text, current_pos))
    IN IF match # None /\ match.start + current_pos - 1 < best.earliest_pos
       THEN [earliest_match |-> match,
             earliest_pos |-> match.start + current_pos - 1,
             match_format |-> InlinePatterns[i].format,
             match_content |-> Group0(From(text, current_pos), match.start, match.m)]
       ELSE best

\* one round of the loop of lines 168-174, for pattern i; positions count
\* from 1
EarliestMatch(text, current_pos, i, best) ==
    LET match == ReSearch(InlinePatterns[i].pattern, From(text, current_pos))
    IN IF match # None /\ match.start + current_pos - 1 < best.earliest_pos
       THEN [earliest_match |-> match,
             earliest_pos |-> match.start + current_pos - 1,
             match_format |-> InlinePatterns[i].format,
             match_content |-> Group(From(text, current_pos), match.start, match.m, 2)]
       ELSE best

RECURSIVE AllPatterns(_, _, _, _)
AllPatterns(text, current_pos, i, best) ==
    IF i > Len(InlinePatterns) THEN best
    ELSE AllPatterns(text, current_pos, i + 1, EarliestMatch(text, current_pos, i, best))

\* a round that moves on by the length of group(1) instead of group(0)
InlineIteration_AdvanceByContent(text, current_pos, formats, best) ==
    IF best.earliest_match # None
    THEN LET before == IF best.earliest_pos > current_pos
                       THEN <<Span(SubSeq(text, current_pos, best.earliest_pos - 1), "plain")>>
                       ELSE <<>>
         IN [current_pos |-> best.earliest_pos + Len(best.match_content),
             formats |-> formats \o before
                             \o <<Span(best.match_content, best.match_format)>>,
             broken |-> FALSE]
    ELSE [current_pos |-> current_pos,
          formats |-> Append(formats, Span(From(text, current_pos), "plain")),
          broken |-> TRUE]

\* one round of the loop of lines 161-186, best being what lines 162-174
\* found: the position to go on from, the spans so far, and whether the round
\* ended in the break of line 186
InlineIteration(text, current_pos, formats, best) ==
    IF best.earliest_match # None
    THEN LET before == IF best.earliest_pos > current_pos
                       THEN <<Span(SubSeq(text, current_pos, best.earliest_pos - 1), "plain")>>
                       ELSE <<>>
             group0 == Group0(From(text, current_pos), best.earliest_match.start,
                              best.earliest_match.m)
         IN [current_pos |-> best.earliest_pos + Len(group0),
             formats |-> formats \o before
                             \o <<Span(best.match_content, best.match_format)>>,
             broken |-> FALSE]
    ELSE [current_pos |-> current_pos,
          formats |-> Append(formats, Span(From(text, current_pos), "plain")),
          broken |-> TRUE]

\* the loop of lines 161-186
RECURSIVE InlineLoop(_, _, _)
InlineRest(text, round) ==
    IF round.broken THEN round.formats
    ELSE InlineLoop(text, round.current_pos, round.formats)

InlineLoop(text, current_pos, formats) ==
    IF ~(current_pos <= Len(text)) THEN formats
    ELSE InlineRest(text, InlineIteration(text, current_pos, formats,
                              AllPatterns(text, current_pos, 1, NoneYet(text))))

\* _parse_inline_markdown
ParseInlineMarkdown(text) ==
    LET formats == InlineLoop(text, 1, <<>>)
    IN IF formats # <<>> THEN formats ELSE <<Span(text, "plain")>>

InlineTexts ==
    Strings({"*", "_", Backquote, "a"}, MaxText)
        \cup {"Some *italic* and **bold** text.", "**x**", "a ~b~ __c__ _d_"}

InitInline ==
    /\ InitPipeline /\ InitTemp /\ InitHttp
    /\ probe \in {[op |-> "_parse_inline_markdown", text |-> s, out |-> None] :
                     s \in InlineTexts}

_parse_inline_markdown(p) ==
    /\ p.op = "_parse_inline_markdown"
    /\ p.out = None
    /\ probe' = [p EXCEPT !.out = List(ParseInlineMarkdown(p.text))]
    /\ UNCHANGED <<_image_map, uuid_next, call, tempVars, httpVars>>

NextInline == _parse_inline_markdown(probe)

SpecInline == InitInline /\ [][NextInline]_vars

\* the delimiters in the order of the pattern list
Delimiters == <<"**", "__", "*", "_", Backquote>>
DelimiterFormat == <<"bold", "bold", "italic", "italic", "code">>

IsAt(s, p, d) == p >= 1 /\ p + Len(d) - 1 <= Len(s) /\ SubSeq(s, p, p + Len(d) - 1) = d

\* the places where delimiter d closes a span opened by d at p: at least one
\* character lies between
Closings(s, p, d) == {q \in (p + Len(d) + 1)..Len(s) : IsAt(s, q, d)}

Opens(s, p, i) == IsAt(s, p, Delimiters[i]) /\ Closings(s, p, Delimiters[i]) # {}

\* the spans of s from position cur on: the leftmost place where a pattern
\* opens, the first pattern of the list that opens there, its nearest closing
RECURSIVE SpansFrom(_, _)
SpansFrom(s, cur) ==
    IF cur > Len(s) THEN <<>>
    ELSE LET places == {p \in cur..Len(s) : \E i \in 1..5 : Opens(s, p, i)}
         IN IF places = {} THEN <<Span(From(s, cur), "plain")>>
            ELSE LET p == SetMin(places)
                     i == SetMin({j \in 1..5 : Opens(s, p, j)})
                     d == Delimiters[i]
                     q == SetMin(Closings(s, p, d))
                 IN (IF p > cur THEN <<Span(SubSeq(s, cur, p - 1), "plain")>> ELSE <<>>)
                      \o <<Span(SubSeq(s, p + Len(d), q - 1), DelimiterFormat[i])>>
                      \o SpansFrom(s, q + Len(d))

\* C20: _parse_inline_markdown scans from left to right and takes at each
\* step the leftmost match among **bold**, __bold__, *italic*, _italic_ and
\* code between backquotes, the earlier pattern of the list when two start at the same place
\* (so "**x**" is bold); the text before a match and the text after the last
\* match are unstyled spans; "Some *italic* and **bold** text." gives
\* "Some " plain, "italic" italic, " and " plain, "bold" bold, " text." plain.
InlineSpansLeftmostFirst ==
    (probe.op = "_parse_inline_markdown" /\ probe.out # None)
       => /\ probe.text # "" => probe.out.list = SpansFrom(probe.text, 1)
          /\ probe.text = "" => probe.out.list = <<Span("", "plain")>>
          /\ probe.text = "**x**" => probe.out.list = <<Span("x", "bold")>>
          /\ probe.text = "Some *italic* and **bold** text."
               => probe.out.list = <<Span("Some ", "plain"), Span("italic", "italic"),
                                Span(" and ", "plain"), Span("bold", "bold"),
                                Span(" text.", "plain")>>

\* bold and italic start at the same place and bold is taken
BoldTakenBeforeItalic ==
    /\ probe.op = "_parse_inline_markdown"
    /\ probe.text = "a**a**"
    /\ probe.out # None
    /\ probe.out.list = <<Span("a", "plain"), Span("a", "bold")>>

\* ==== rewrite_markdown_image_paths (utils/file_helpers.py, lines 132-189) ======
MaxParts == 4

\* os.path.basename
RECURSIVE Basename(_)
Basename(path) ==
    IF path = "" \/ CharAt(path, Len(path)) = "/" THEN ""
    ELSE Basename(SubSeq(path, 1, Len(path) - 1)) \o CharAt(path, Len(path))

EndsWith(s, t) == Len(s) >= Len(t) /\ SubSeq(s, Len(s) - Len(t) + 1, Len(s)) = t

\* f"/media/{session_id}/{filename}"
MediaUrl(session_id, filename) == "/media/" \o session_id \o "/" \o filename

\* standard_pattern (line 162): (\!\[.*?\]\()([^\)]+)(\))
StandardPattern ==
    <<Lit("!["), Lazy(NotClass(Newline, 0, Unlimited)), Lit("]("),
      NotClass({")"}, 1, Unlimited), Lit(")")>>

\* absolute_pattern (line 180), for texts in lower case:
\* /[^\s\)\(]+?/media/[^\s\)\(]+?\.(png|jpe?g|gif|svg|webp)
PathChars == Whitespace \cup {")", "("}
AbsolutePattern ==
    <<Lit("/"), Lazy(NotClass(PathChars, 1, Unlimited)), Lit("/media/"),
      Lazy(NotClass(PathChars, 1, Unlimited)), Lit("."),
      Alt(<<"png", "jpeg", "jpg", "gif", "svg", "webp">>)>>

ImageExtensions == {".png", ".jpg", ".jpeg", ".gif", ".svg", ".webp"}

\* replace_standard_markdown (lines 147-159)
ReplaceStandardMarkdown(s, start, m, session_id) ==
    LET img_prefix == SubSeq(s, start, m[3] - 1)
        img_path == Group(s, start, m, 4)
        closing_paren == Group(s, start, m, 5)
    IN img_prefix \o MediaUrl(session_id, Basename(img_path)) \o closing_paren

\* replace_media_paths (lines 168-177)
ReplaceMediaPaths(s, start, m, session_id) ==
    LET full_path == Group0(s, start, m)
        filename == Basename(full_path)
    IN IF ~(\E ext \in ImageExtensions : EndsWith(filename, ext))
       THEN full_path
       ELSE MediaUrl(session_id, filename)

\* re.sub(standard_pattern, replace_standard_markdown, markdown_text)
RECURSIVE SubStandard(_, _)
SubStandard(s, session_id) ==
    LET found == ReSearch(StandardPattern, s)
    IN IF found = None THEN s
       ELSE LET end == found.m[Len(found.m)]
            IN SubSeq(s, 1, found.start - 1)
                 \o ReplaceStandardMarkdown(s, found.start, found.m, session_id)
                 \o SubStandard(From(s, end), session_id)

\* the second pass left out
SubAbsolute_Skipped(s, session_id) == s

\* re.sub(absolute_pattern, replace_media_paths, rewritten_text)
RECURSIVE SubAbsolute(_, _)
SubAbsolute(s, session_id) ==
    LET found == ReSearch(AbsolutePattern, s)
    IN IF found = None THEN s
       ELSE LET end == found.m[Len(found.m)]
            IN SubSeq(s, 1, found.start - 1)
                 \o ReplaceMediaPaths(s, found.start, found.m, session_id)
                 \o SubAbsolute(From(s, end), session_id)

RewriteMarkdownImagePaths(markdown_text, session_id) ==
    SubAbsolute(SubStandard(markdown_text, session_id), session_id)

\* the markdown texts rewritten: up to MaxParts pieces in a row
MarkdownParts ==
    {"![a](", "d/x.png", "/v/media/y.png", ")", " t", "](", "/media/", "\n"}

RECURSIVE Texts(_)
Texts(n) ==
    IF n = 0 THEN {""}
    ELSE Texts(n - 1) \cup {s \o part : s \in Texts(n - 1), part \in MarkdownParts}

InitRewrite ==
    /\ InitPipeline /\ InitTemp /\ InitHttp
    /\ probe \in {[op |-> "rewrite_markdown_image_paths", markdown_text |-> s,
                   session_id |-> sid, out |-> None] :
                     s \in Texts(MaxParts), sid \in {"s1"}}

rewrite_markdown_image_paths(p) ==
    /\ p.op = "rewrite_markdown_image_paths"
    /\ p.out = None
    /\ probe' = [p EXCEPT !.out =
                    [text |-> RewriteMarkdownImagePaths(p.markdown_text, p.session_id)]]
    /\ UNCHANGED <<_image_map, uuid_next, call, tempVars, httpVars>>

NextRewrite == rewrite_markdown_image_paths(probe)

SpecRewrite == InitRewrite /\ [][NextRewrite]_vars

\* where the "](" of an image reference opened at p may stand: no newline in
\* the alt text, a path of at least one character, a ")" after it
RefClosers(s, p) ==
    {q \in (p + 2)..(Len(s) - 3) :
        /\ IsAt(s, q, "](")
        /\ \A i \in (p + 2)..(q - 1) : CharAt(s, i) # "\n"
        /\ CharAt(s, q + 2) # ")"
        /\ \E r \in (q + 3)..Len(s) : CharAt(s, r) = ")"}

IsImageReference(s, p) == IsAt(s, p, "![") /\ RefClosers(s, p) # {}

HasImageReference(s) == \E p \in 1..Len(s) : IsImageReference(s, p)

\* s with the path of every image reference replaced and nothing else touched
RECURSIVE PathsReplaced(_, _)
PathsReplaced(s, session_id) ==
    IF ~HasImageReference(s) THEN s
    ELSE LET p == SetMin({i \in 1..Len(s) : IsImageReference(s, i)})
             q == SetMin(RefClosers(s, p))
             r == SetMin({i \in (q + 3)..Len(s) : CharAt(s, i) = ")"})
         IN SubSeq(s, 1, q + 1)
              \o MediaUrl(session_id, Basename(SubSeq(s, q + 2, r - 1)))
              \o ")"
              \o PathsReplaced(From(s, r + 1), session_id)

NoPathChar(s, from, to) == \A i \in from..to : CharAt(s, i) \notin PathChars

\* the ends of the absolute media paths that start at p:
\* "/", directories, "/media/", a name, "." and an image extension
AbsoluteEnds(s, p) ==
    IF ~IsAt(s, p, "/") THEN {}
    ELSE UNION {
           UNION {
             {[m |-> m, end |-> e + Len(ext)] :
                 ext \in {x \in ImageExtensions : IsAt(s, e, x)}} :
             e \in {i \in (m + 8)..Len(s) : NoPathChar(s, m + 7, i - 1)}} :
           m \in {i \in (p + 2)..Len(s) :
                     IsAt(s, i, "/media/") /\ NoPathChar(s, p + 1, i - 1)}}

HasAbsoluteMediaPath(s) == \E p \in 1..Len(s) : AbsoluteEnds(s, p) # {}

\* s with every absolute media path replaced and nothing else touched
RECURSIVE MediaPathsReplaced(_, _)
MediaPathsReplaced(s, session_id) ==
    IF ~HasAbsoluteMediaPath(s) THEN s
    ELSE LET p == SetMin({i \in 1..Len(s) : AbsoluteEnds(s, i) # {}})
             ends == AbsoluteEnds(s, p)
             m == SetMin({x.m : x \in ends})
             end == SetMin({x.end : x \in {y \in ends : y.m = m}})
         IN SubSeq(s, 1, p - 1)
              \o MediaUrl(session_id, Basename(SubSeq(s, p, end - 1)))
              \o MediaPathsReplaced(From(s, end), session_id)

Rewritten(p) == p.op = "rewrite_markdown_image_paths" /\ p.out # None

RECURSIVE ConcatTexts(_)
ConcatTexts(spans) ==
    IF spans = <<>> THEN "" ELSE Head(spans).text \o ConcatTexts(Tail(spans))

\* the spans account for s from position cur to its end: an unstyled span is
\* the next characters of s, a styled span is the next characters of s between
\* two copies of a delimiter of its style, and nothing else of s is passed over
RECURSIVE Accounts(_, _, _)
Accounts(s, cur, spans) ==
    IF spans = <<>> THEN cur = Len(s) + 1
    ELSE LET sp == Head(spans)
         IN IF sp.format = "plain"
            THEN /\ sp.text # ""
                 /\ IsAt(s, cur, sp.text)
                 /\ Accounts(s, cur + Len(sp.text), Tail(spans))
            ELSE \E i \in 1..5 :
                   LET d == Delimiters[i]
                   IN /\ DelimiterFormat[i] = sp.format
                      /\ sp.text # ""
                      /\ IsAt(s, cur, d)
                      /\ IsAt(s, cur + Len(d), sp.text)
                      /\ IsAt(s, cur + Len(d) + Len(sp.text), d)
                      /\ Accounts(s, cur + 2 * Len(d) + Len(sp.text), Tail(spans))

\* the characters the delimiters of the styled spans take up
RECURSIVE DelimiterChars(_, _, _)
DelimiterChars(s, cur, spans) ==
    IF spans = <<>> THEN 0
    ELSE LET sp == Head(spans)
         IN IF sp.format = "plain"
            THEN DelimiterChars(s, cur + Len(sp.text), Tail(spans))
            ELSE LET i == SetMin({j \in 1..5 : DelimiterFormat[j] = sp.format
                                                /\ IsAt(s, cur, Delimiters[j])})
                 IN 2 * Len(Delimiters[i])
                      + DelimiterChars(s, cur + 2 * Len(Delimiters[i]) + Len(sp.text),
                                       Tail(spans))

\* C21: the texts of the spans _parse_inline_markdown returns, put together
\* in order, are the content string without the delimiters of the spans it
\* recognised: every span is the next piece of the string, a styled one
\* standing between the two delimiters that are left out, so nothing else is
\* dropped, doubled or moved and no such delimiter is inside a span.
SpansConcatenateToStrippedText ==
    (probe.op = "_parse_inline_markdown" /\ probe.out # None)
       => /\ probe.text # "" => Accounts(probe.text, 1, probe.out.list)
          /\ probe.text # ""
               => Len(ConcatTexts(probe.out.list))
                    = Len(probe.text) - DelimiterChars(probe.text, 1, probe.out.list)
          /\ probe.text = "" => ConcatTexts(probe.out.list) = ""
          /\ probe.text = "Some *italic* and **bold** text."
               => ConcatTexts(probe.out.list) = "Some italic and bold text."

\* a styled span, an unstyled one, and a star that delimits nothing and is kept
SpanAndLooseStar ==
    /\ probe.op = "_parse_inline_markdown"
    /\ probe.text = "a_a_*a"
    /\ probe.out # None
    /\ ConcatTexts(probe.out.list) = "aa*a"
    /\ Len(probe.out.list) = 3

\* ==== paragraphs of the output document (python-docx) ========================
\* a length in points, a colour
Pt(n) == [pt |-> n]
RGBColor(rgb) == [rgb |-> rgb]

\* new_doc.add_paragraph(): nothing set on the paragraph itself
NewParagraph ==
    [style |-> "Normal", runs |-> <<>>, left_indent |-> None,
     first_line_indent |-> None, space_before |-> None, space_after |-> None,
     line_spacing |-> None]

\* paragraph.add_run(text): nothing set on the run itself
NewRun(text) ==
    [text |-> text, bold |-> FALSE, italic |-> FALSE, font_name |-> "",
     font_size |-> None, font_color |-> None]

AddRun(paragraph, run) == [paragraph EXCEPT !.runs = Append(@, run)]

\* ---- config/formatting_config.py --------------------------------------------
Black == <<0, 0, 0>>

DOCUMENT_FORMATTING ==
    [headings |->
        (1 :> [font_size |-> 16, font_color |-> Black,
               space_before |-> 12, space_after |-> 6])
        @@ (2 :> [font_size |-> 14, font_color |-> Black,
                   space_before |-> 10, space_after |-> 6])
        @@ (3 :> [font_size |-> 12, font_color |-> Black,
                   space_before |-> 8, space_after |-> 6]),
     default_text |->
        [font_size |-> 11, font_color |-> Black, space_before |-> 6,
         space_after |-> 6, line_spacing |-> Frac(115, 100)]]

\* the styles of the default template of python-docx that the parser can name
TemplateStyles ==
    {"Normal", "Quote", "List Bullet", "List Number"}
        \cup {"Heading " \o ToString(n) : n \in 1..9}

\* ---- _apply_format_settings (lines 438-454) ---------------------------------
ApplyFormatSettings(paragraph, format_settings) ==
    LET keys == DOMAIN format_settings
        sized(run) ==
            [run EXCEPT
               !.font_size = IF "font_size" \in keys
                             THEN Pt(format_settings.font_size) ELSE @,
               !.font_color = IF "font_color" \in keys
                              THEN RGBColor(format_settings.font_color) ELSE @]
    IN [paragraph EXCEPT
          !.runs = [i \in 1..Len(paragraph.runs) |-> sized(paragraph.runs[i])],
          !.space_before = IF "space_before" \in keys
                           THEN Pt(format_settings.space_before) ELSE @,
          !.space_after = IF "space_after" \in keys
                          THEN Pt(format_settings.space_after) ELSE @,
          !.line_spacing = IF "line_spacing" \in keys
                           THEN format_settings.line_spacing ELSE @]

\* ---- _apply_formatting (lines 233-257) --------------------------------------
\* int(style_name.split()[-1]) of "Heading <n>"
LevelNum(style_name) ==
    CHOOSE n \in 0..9 : ToString(n) = From(style_name, Len("Heading ") + 1)

\* lines 243-249
FormatSettingsOf(style_name) ==
    LET settings == DOCUMENT_FORMATTING
    IN IF StartsWith(style_name, "Heading ")
          /\ LevelNum(style_name) \in DOMAIN settings.headings
       THEN settings.headings[LevelNum(style_name)]
       ELSE settings.default_text

\* the hanging indent given at every level, level 0 included
ApplyFormatting_HangingAtEveryLevel(paragraph, style_name, level) ==
    LET styled == [paragraph EXCEPT
                      !.style = IF style_name \in TemplateStyles
                                THEN style_name ELSE "Normal"]
        indented ==
            IF style_name \in {"List Bullet", "List Number"}
            THEN [styled EXCEPT !.left_indent = Pt(level * 18),
                                !.first_line_indent = Pt(-18)]
            ELSE styled
    IN ApplyFormatSettings(indented, FormatSettingsOf(style_name))

ApplyFormatting(paragraph, style_name, level) ==
    LET styled == [paragraph EXCEPT
                      !.style = IF style_name \in TemplateStyles
                                THEN style_name ELSE "Normal"]
        indented ==
            IF style_name \in {"List Bullet", "List Number"}
            THEN [styled EXCEPT !.left_indent = Pt(level * 18),
                                !.first_line_indent =
                                    IF level > 0 THEN Pt(-18) ELSE @]
            ELSE styled
    IN ApplyFormatSettings(indented, FormatSettingsOf(style_name))

\* the calls of _apply_formatting: a paragraph with or without runs, a style
\* the parser can name, a list level
MaxLevel == 3

StyleNames ==
    {"Normal", "Quote", "List Bullet", "List Number"}
        \cup {"Heading " \o ToString(n) : n \in 1..6}

FormatParagraphs ==
    {NewParagraph, AddRun(NewParagraph, NewRun("a")),
     AddRun(AddRun(NewParagraph, NewRun("a")), NewRun("b"))}

InitFormat ==
    /\ InitPipeline /\ InitTemp /\ InitHttp
    /\ probe \in {[op |-> "_apply_formatting", paragraph |-> p,
                   style_name |-> s, level |-> l, out |-> None] :
                     p \in FormatParagraphs, s \in StyleNames, l \in 0..MaxLevel}

_apply_formatting(p) ==
    /\ p.op = "_apply_formatting"
    /\ p.out = None
    /\ probe' = [p EXCEPT !.out = ApplyFormatting(p.paragraph, p.style_name, p.level)]
    /\ UNCHANGED <<_image_map, uuid_next, call, tempVars, httpVars>>

NextFormat == _apply_formatting(probe)

SpecFormat == InitFormat /\ [][NextFormat]_vars

Formatted(p) == p.op = "_apply_formatting" /\ p.out # None
IsListStyle(style_name) == style_name \in {"List Bullet", "List Number"}

\* C23 as stated: a list block at level L is indented by L times 18 points,
\* a list item at level 0 has a hanging indent, and a block of another kind
\* has no list indentation.
ListItemsAtLevelZeroHang ==
    Formatted(probe)
       => /\ IsListStyle(probe.style_name)
               => /\ probe.out.left_indent = Pt(probe.level * 18)
                  /\ probe.level = 0 => probe.out.first_line_indent = Pt(-18)
          /\ ~IsListStyle(probe.style_name)
               => /\ probe.out.left_indent = None
                  /\ probe.out.first_line_indent = None

\* C23 amended: a list block at level L is indented by L times 18 points and
\* has a hanging first line (minus 18 points) exactly when L is greater than
\* 0; a block of another kind has no list indentation.
ListIndentPerLevel ==
    Formatted(probe)
       => /\ IsListStyle(probe.style_name)
               => /\ probe.out.left_indent = Pt(probe.level * 18)
                  /\ probe.level > 0 => probe.out.first_line_indent = Pt(-18)
                  /\ probe.level = 0 => probe.out.first_line_indent = None
          /\ ~IsListStyle(probe.style_name)
               => /\ probe.out.left_indent = None
                  /\ probe.out.first_line_indent = None

\* a numbered item at level 2: 36 points to the left, hanging first line
NestedItemIndented ==
    /\ Formatted(probe)
    /\ probe.style_name = "List Number"
    /\ probe.level = 2
    /\ probe.out.left_indent = Pt(36)
    /\ probe.out.first_line_indent = Pt(-18)

\* ==== recomposition of the rewritten markdown into blocks (lines 360-424) ====
MaxLines == 3

\* str.strip()
RECURSIVE LStripStr(_)
LStripStr(s) ==
    IF s # "" /\ CharAt(s, 1) \in Whitespace THEN LStripStr(From(s, 2)) ELSE s

RECURSIVE RStripStr(_)
RStripStr(s) ==
    IF s # "" /\ CharAt(s, Len(s)) \in Whitespace
    THEN RStripStr(SubSeq(s, 1, Len(s) - 1)) ELSE s

StripStr(s) == RStripStr(LStripStr(s))

\* \[IMAGE:([^]]+)\]
PlaceholderPattern == <<Lit("[IMAGE:"), NotClass({"]"}, 1, Unlimited), Lit("]")>>

SentinelText == "This image is too large to process"

\* the registry key an id text names: the number it spells, the sentinel, or
\* no key at all
ImageKey(image_id) ==
    IF image_id = SentinelText THEN TOO_LARGE
    ELSE IF \E n \in 1..9 : ToString(n) = image_id
    THEN CHOOSE n \in 1..9 : ToString(n) = image_id
    ELSE -1

\* image_match.group(1).strip() of a matching stripped line, as a registry key
MatchedImageKey(stripped, image_match) ==
    ImageKey(StripStr(Group(stripped, 1, image_match, 2)))

\* _add_formatted_text (lines 222-231): one run for each span
RunOfSpan(sp) ==
    [NewRun(sp.text) EXCEPT
        !.bold = (sp.format = "bold"),
        !.italic = (sp.format = "italic"),
        !.font_name = IF sp.format = "code" THEN "Courier New" ELSE @]

RunsOfSpans(spans) == [i \in 1..Len(spans) |-> RunOfSpan(spans[i])]

AddFormattedText(paragraph, text) ==
    [paragraph EXCEPT !.runs = @ \o RunsOfSpans(ParseInlineMarkdown(text))]

\* lines 373-378: the content of the first line, then every additional line
\* after a run that holds a line break
RECURSIVE AddLines(_, _, _)
AddLines(paragraph, texts, first) ==
    IF texts = <<>> THEN paragraph
    ELSE AddLines(AddFormattedText(IF first THEN paragraph
                                   ELSE AddRun(paragraph, NewRun("\n")),
                                   Head(texts)),
                  Tail(texts), FALSE)

\* lines 368-378 for the parsed first line and the lines after it
BlockParagraph(parsed, additional_lines) ==
    AddLines(ApplyFormatting(NewParagraph, parsed.style, parsed.level),
             <<parsed.content>> \o additional_lines, TRUE)

\* "if current_lines: ..." (lines 366-379, 385-398, 413-424)
ProcessAccumulatedLines(doc, current_lines) ==
    IF current_lines = <<>> THEN doc
    ELSE Append(doc, BlockParagraph(ParseMarkdownLine(current_lines[1]),
                                    Tail(current_lines)))

\* the lines the gateway may answer with
BlockLines ==
    {"", "# T", "#### H", "a", "*i* b", "- x", "  - y", "1. n", "> q", "[IMAGE:1]"}

ImprovedTexts == UNION {[1..n -> BlockLines] : n \in 0..MaxLines}

\* the gateway has answered for a document with one picture
InitBlocks ==
    /\ _image_map = (1 :> ImgSmall)
    /\ uuid_next = 2
    /\ call = [t \in Threads |-> IdleCall]
    /\ InitTemp /\ InitHttp
    /\ probe \in {[op |-> "improve_document", improved_text |-> t, line_no |-> 1,
                   current_lines |-> <<>>, new_doc |-> <<>>, errors |-> <<>>,
                   out |-> None] : t \in ImprovedTexts}

\* the body of the loop for one line: stripped is line.strip(), processed the
\* document once the accumulated lines are written out
ProcessLine(p, line, stripped, image_match, processed) ==
    IF stripped = ""
    THEN /\ probe' = [p EXCEPT !.new_doc = processed, !.current_lines = <<>>,
                               !.line_no = @ + 1]
         /\ UNCHANGED _image_map
    ELSE IF image_match # NoMatch
    THEN \E image_id \in {MatchedImageKey(stripped, image_match)} :
         \E added \in {AddImageToDoc(processed, _image_map, image_id)} :
            /\ probe' = [p EXCEPT
                  !.new_doc = added.doc,
                  !.current_lines = <<>>,
                  !.errors = IF added.error # None
                             THEN Append(@, added.error) ELSE @,
                  !.line_no = @ + 1]
            /\ _image_map' = IF image_id \in DOMAIN _image_map
                             THEN DelImage(_image_map, image_id)
                             ELSE _image_map
    ELSE /\ probe' = [p EXCEPT !.current_lines = Append(@, line),
                               !.line_no = @ + 1]
         /\ UNCHANGED _image_map

\* one iteration of "for line in improved_text.split('\n')" (lines 364-410)
improve_document_line(p) ==
    /\ p.op = "improve_document"
    /\ p.out = None
    /\ p.line_no <= Len(p.improved_text)
    /\ \E stripped \in {StripStr(p.improved_text[p.line_no])} :
          ProcessLine(p, p.improved_text[p.line_no], stripped,
                      ReMatch(PlaceholderPattern, stripped),
                      ProcessAccumulatedLines(p.new_doc, p.current_lines))
    /\ UNCHANGED <<uuid_next, call, tempVars, httpVars>>

\* lines 412-432
improve_document_remaining(p) ==
    /\ p.op = "improve_document"
    /\ p.out = None
    /\ p.line_no > Len(p.improved_text)
    /\ \E final \in {ProcessAccumulatedLines(p.new_doc, p.current_lines)} :
          probe' = [p EXCEPT !.new_doc = final, !.current_lines = <<>>,
                             !.out = [success |-> TRUE, formatted_doc |-> final]]
    /\ UNCHANGED <<_image_map, uuid_next, call, tempVars, httpVars>>

NextBlocks ==
    \/ improve_document_line(probe)
    \/ improve_document_remaining(probe)

SpecBlocks == InitBlocks /\ [][NextBlocks]_vars

Recomposing(p) == p.op = "improve_document"
StyleOf(line) == ParseMarkdownLine(line).style

\* C22: the lines gathered for one output block all classify to the kind of
\* the block's first line: a line of another kind is not merged into the block
\* but starts a block of its own.
PendingLinesShareKind ==
    Recomposing(probe)
       => \A j \in 1..Len(probe.current_lines) :
             StyleOf(probe.current_lines[j]) = StyleOf(probe.current_lines[1])


IsBlock(paragraph) == "style" \in DOMAIN paragraph

\* C24: every text run of an output block carries the font size and the
\* colour that DOCUMENT_FORMATTING configures for the style of its block: 16,
\* 14 and 12 points for headings of level 1, 2 and 3, 11 points for every other
\* block, black throughout.
RunsCarryConfiguredFont ==
    Recomposing(probe)
       => \A i \in 1..Len(probe.new_doc) :
             IsBlock(probe.new_doc[i])
                => \A j \in 1..Len(probe.new_doc[i].runs) :
                      /\ probe.new_doc[i].runs[j].font_size
                            = Pt(FormatSettingsOf(probe.new_doc[i].style).font_size)
                      /\ probe.new_doc[i].runs[j].font_color
                            = RGBColor(FormatSettingsOf(probe.new_doc[i].style).font_color)


\* ==== placeholders met during recomposition ===================================
Recomposed(c) == c.pc = "recompose" \/ (c.pc = "done" /\ c.result.success)

PicturesOf(doc, id) ==
    Len(SelectSeq(doc, LAMBDA p : p.kind = "picture" /\ p.image_id = id))
ErrorsOf(errors, id) == Len(SelectSeq(errors, LAMBDA e : e.image_id = id))

\* the ids named by the placeholder lines among the first n lines
ProcessedIds(lines, n) ==
    {ImageMatchId(lines[j]) :
        j \in {i \in 1..n : ~IsBlank(lines[i]) /\ ImageMatch(lines[i])}}

\* C25: each registered image is embedded at most once: once a placeholder line
\* naming an id has been processed the id is out of the registry, whether the
\* embedding succeeded or failed, so the output never holds two pictures of
\* one id and a failed embedding is reported once and not tried again.
EmbeddedAtMostOnce ==
    \A t \in Threads :
       Recomposed(call[t])
          => LET c == call[t]
                 done == IF c.line_no > Len(c.improved_text)
                         THEN Len(c.improved_text) ELSE c.line_no - 1
             IN /\ \A id \in ProcessedIds(c.improved_text, done) :
                      id \notin DOMAIN _image_map
                /\ \A id \in DOMAIN c.registered :
                      PicturesOf(c.new_doc, id) + ErrorsOf(c.errors, id) <= 1

\* a picture and a broken picture, each named twice by the rewritten text:
\* one picture embedded, one error
NamedTwiceHandledOnce ==
    /\ call[1].pc = "done"
    /\ call[1].rewrite = "doubled"
    /\ call[1].result.success
    /\ Len(Pictures(call[1].new_doc)) = 1
    /\ Len(call[1].errors) = 1
    /\ Len(PlaceholderTokens(call[1].improved_text)) = 4

\* the line recompose_line is about to process names an id that is neither
\* registered nor the sentinel
UnknownPlaceholderNext(c) ==
    /\ c.pc = "recompose"
    /\ c.line_no <= Len(c.improved_text)
    /\ ~IsBlank(c.improved_text[c.line_no])
    /\ ImageMatch(c.improved_text[c.line_no])
    /\ ImageMatchId(c.improved_text[c.line_no]) \notin DOMAIN _image_map
    /\ ImageMatchId(c.improved_text[c.line_no]) # TOO_LARGE

\* C26: a placeholder line whose id is neither registered nor the sentinel is
\* dropped silently: the step that processes it writes out the lines gathered
\* before it and nothing else (no paragraph and no picture for the placeholder),
\* adds no error, leaves the registry as it was, and recomposition goes on
\* with the next line.
UnknownPlaceholderDropped ==
    [][\A t \in Threads :
          (UnknownPlaceholderNext(call[t]) /\ call'[t] # call[t])
             => /\ call'[t].new_doc = FlushLines(call[t].new_doc, call[t].current_lines)
                /\ call'[t].errors = call[t].errors
                /\ _image_map' = _image_map
                /\ call'[t].pc = "recompose"
                /\ call'[t].line_no = call[t].line_no + 1]_vars

\* the rewritten text opens with an invented placeholder; the picture after
\* it is embedded and no error is returned
InventedPlaceholderIgnored ==
    /\ call[1].pc = "done"
    /\ call[1].rewrite = "invented"
    /\ call[1].result.success
    /\ call[1].result.errors = None
    /\ Len(call[1].new_doc) = 2
    /\ Len(Pictures(call[1].new_doc)) = 1

\* the words of a text, placeholders and blank pieces left out
Words(lines) ==
    SelectSeq(Flat(lines), LAMBDA tok : tok.k = "txt" /\ ~IsBlankToken(tok))

RECURSIVE ParagraphLines(_)
ParagraphLines(doc) ==
    IF doc = <<>> THEN <<>>
    ELSE (IF Head(doc).kind = "text" THEN Head(doc).lines ELSE <<>>)
            \o ParagraphLines(Tail(doc))

\* C27: no text of the rewritten text is lost in recomposition: the words of
\* its lines are the words of the text paragraphs of the output document, in
\* the same order, lines pending at the end and text that shares a line with
\* a placeholder included.
NoTextLostInRecomposition ==
    \A t \in Threads :
       (Returned(call[t]) /\ call[t].result.success)
          => Words(ParagraphLines(call[t].new_doc)) = Words(call[t].improved_text)


\* ==== an image whose payload cannot be resolved ================================
Resolves(img) == img.resolves
IsIssuedToken(tok) == tok.k = "img" /\ tok.id # TOO_LARGE

\* the texts decomposition keeps: those of the runs without an image and of
\* the runs whose image could not be resolved
KeptTexts(doc) ==
    LET runs == SelectSeq(Flat(doc),
                    LAMBDA r : (r.image = None \/ ~r.image.resolves)
                               /\ r.text \notin {"", " "})
    IN [i \in 1..Len(runs) |-> Txt(runs[i].text)]

\* C29: when the payload of an image cannot be resolved, decomposition goes on
\* with the runs and paragraphs after it: the run gives its plain text and
\* nothing else, no id is issued and nothing is registered for it, every
\* other image within the limit is registered in document order, and the keys
\* of the registry are the ids of the placeholder tokens of the text.
UnresolvedImageSkipped ==
    LET c == call[1]
        imgs == DocImages(c.doc)
        fit == SelectSeq(imgs, FitsLimit)
        toks == SelectSeq(PlaceholderTokens(c.original_text), IsIssuedToken)
    IN (c.pc \in {"check", "rewrite"}
          /\ \E i \in 1..Len(imgs) : ~Resolves(imgs[i]))
       => /\ Len(toks) = Len(fit)
          /\ \A i \in 1..Len(toks) :
                /\ toks[i].id \in DOMAIN _image_map
                /\ _image_map[toks[i].id] = fit[i]
          /\ DOMAIN _image_map = {toks[i].id : i \in 1..Len(toks)}
          /\ uuid_next = 1 + Len(fit)
          /\ Words(c.original_text) = KeptTexts(c.doc)

\* an unresolvable image between two pictures: its text is kept and both
\* pictures are registered
UnresolvedBetweenTwoPictures ==
    /\ call[1].pc = "check"
    /\ Len(DocImages(call[1].doc)) = 3
    /\ ~Resolves(DocImages(call[1].doc)[2])
    /\ DOMAIN _image_map = {1, 2}
    /\ Words(call[1].original_text) = <<Txt("b")>>


\* ==== one conversion after another on the doc_processor of app.py =============
MaxIssued == 3

\* a picture; a picture after text in its paragraph, which recomposition
\* leaves in the registry; a picture and one that cannot be embedded; text and
\* a picture above the size limit
RepeatDocs ==
    { <<<<Run("", ImgSmall)>>>>,
      <<<<Run("a", None), Run("", ImgSmall)>>>>,
      <<<<Run("", ImgSmall)>>, <<Run("", ImgCorrupt)>>>>,
      <<<<Run("a", None)>>, <<Run("", ImgHuge)>>>> }

RepeatOutcomes(text) ==
    {[kind |-> "raise"]}
        \cup {[kind |-> k, content |-> Rewrite(k, text)] : k \in {"identity", "doubled"}}

\* app.py upload_file for the request after one that has been answered: the
\* same doc_processor, with whatever its registry still holds
upload_file_again(t, docs) ==
    /\ call[t].pc = "done"
    /\ uuid_next <= MaxIssued
    /\ \E d \in docs :
         call' = [call EXCEPT ![t] = [IdleCall EXCEPT !.pc = "extract", !.doc = d]]
    /\ UNCHANGED <<_image_map, uuid_next, tempVars, httpVars, probe>>

NextRepeat == \E t \in {1} :
    \/ upload_file(t, RepeatDocs)
    \/ extract_text_and_images(t)
    \/ improve_document_checks(t)
    \/ chat_completions_create(t, RepeatOutcomes(call[t].original_text))
    \/ recompose_line(t)
    \/ improve_document_return(t)
    \/ upload_file_again(t, RepeatDocs)

SpecRepeat == Init /\ [][NextRepeat]_vars

\* C28: each call of extract_text_and_images starts from an empty registry:
\* whatever the conversions before it left behind, the registry after
\* decomposition holds the images of the current document within the limit,
\* under ids issued now, and no id issued earlier is in it.
RegistryFreshPerExtraction ==
    [][\A t \in Threads :
          (call[t].pc = "extract" /\ call'[t].pc = "check")
             => LET fit == SelectSeq(DocImages(call[t].doc), FitsLimit)
                IN /\ DOMAIN _image_map' = uuid_next..(uuid_next + Len(fit) - 1)
                   /\ \A i \in 1..Len(fit) : _image_map'[uuid_next + i - 1] = fit[i]
                   /\ \A id \in 1..(uuid_next - 1) : id \notin DOMAIN _image_map'
                   /\ \A id \in DOMAIN _image_map : id \notin DOMAIN _image_map']_vars

\* a later conversion has decomposed a document with one picture: ids 1 and 2
\* were issued before and only the new id 3 is registered
ThirdIdAloneInRegistry ==
    /\ call[1].pc = "check"
    /\ Len(DocImages(call[1].doc)) = 1
    /\ uuid_next = 4
    /\ DOMAIN _image_map = {3}


\* ==== the scanning loop of _parse_inline_markdown, one round at a time ========
\* "formats = []; current_pos = 0" (lines 149-150); iterations counts the
\* rounds of the loop
MaxScanText == 4

ScanTexts ==
    Strings({"*", "_", Backquote, "a"}, MaxScanText) \cup {"*a*_a_", "a **a** a"}

InitScan ==
    /\ InitPipeline /\ InitTemp /\ InitHttp
    /\ probe \in {[op |-> "scan", text |-> s, current_pos |-> 1, formats |-> <<>>,
                   broken |-> FALSE, iterations |-> 0, out |-> None] :
                     s \in ScanTexts}

\* the earliest match of every text at every scan position (lines 161-176),
\* tabulated once
EarliestAt ==
    [text \in ScanTexts |->
        [current_pos \in 1..(Len(text) + 1) |->
            AllPatterns(text, current_pos, 1, NoneYet(text))]]

\* one round of "while current_pos < len(text)" (lines 161-186)
while_iteration(p) ==
    /\ p.op = "scan"
    /\ p.out = None
    /\ ~p.broken
    /\ p.current_pos <= Len(p.text)
    /\ \E round \in {InlineIteration(p.text, p.current_pos, p.formats,
                        EarliestAt[p.text][p.current_pos])} :
          probe' = [p EXCEPT !.current_pos = round.current_pos,
                             !.formats = round.formats,
                             !.broken = round.broken,
                             !.iterations = @ + 1]
    /\ UNCHANGED <<_image_map, uuid_next, call, tempVars, httpVars>>

\* "return formats if formats else [(text, {})]" (line 188)
return_formats(p) ==
    /\ p.op = "scan"
    /\ p.out = None
    /\ p.broken \/ ~(p.current_pos <= Len(p.text))
    /\ probe' = [p EXCEPT !.out = List(IF p.formats # <<>> THEN p.formats
                                        ELSE <<Span(p.text, "plain")>>)]
    /\ UNCHANGED <<_image_map, uuid_next, call, tempVars, httpVars>>

NextScan ==
    \/ while_iteration(probe)
    \/ return_formats(probe)

\* the loop is not interrupted: a round that can run does run
SpecScan == InitScan /\ [][NextScan]_vars /\ WF_vars(NextScan)

Scanning(p) == p.op = "scan"
AtLeastOne(n) == IF n < 1 THEN 1 ELSE n

\* a round of the loop moves on by three characters or more, or appends the
\* rest of the text and ends the loop
RoundAdvancesOrStops ==
    (Scanning(probe) /\ probe'.iterations = probe.iterations + 1)
       => \/ /\ ~probe'.broken
             /\ probe'.current_pos >= probe.current_pos + 3
          \/ /\ probe'.broken
             /\ probe'.formats
                   = Append(probe.formats, Span(From(probe.text, probe.current_pos), "plain"))

\* the rounds and the spans are no more than the characters of the text (one
\* span for the empty text), and what is returned holds a span
ScanBounded ==
    Scanning(probe)
       => /\ probe.iterations <= Len(probe.text)
          /\ Len(probe.formats) <= Len(probe.text)
          /\ probe.out # None
                => /\ Len(probe.out.list) >= 1
                   /\ Len(probe.out.list) <= AtLeastOne(Len(probe.text))

\* C30 as stated: the spans returned are no more than the characters of the
\* text. The empty text has no character and one span is returned for it.
SpansWithinTextLength ==
    (Scanning(probe) /\ probe.out # None)
       => Len(probe.out.list) <= Len(probe.text)

\* C30: _parse_inline_markdown terminates on every text: each round of its
\* loop either moves the scan position on by the length of a whole match,
\* three characters or more, or appends the remaining text and stops; the
\* rounds are no more than the characters of the text, and so are the
\* returned spans, except that one span is returned for the empty text; at
\* least one span is returned.
InlineScanTerminates ==
    /\ [][RoundAdvancesOrStops]_vars
    /\ []ScanBounded
    /\ <>(Scanning(probe) /\ probe.out # None)

\* two rounds that found a match and the loop left by its condition
TwoMatchesToTheEnd ==
    /\ Scanning(probe)
    /\ probe.text = "*a*_a_"
    /\ probe.out # None
    /\ probe.iterations = 2
    /\ ~probe.broken
    /\ Len(probe.out.list) = 2
====
